---- MODULE Spec2Model ----
(***************************************************************************)
(* Studio Lights backend (src/app.py): the staged image-generation         *)
(* pipeline, its verify-and-repair loop and the in-memory caches.          *)
(*                                                                         *)
(* Requests are handled one at a time.  A handler is cut into steps at its *)
(* external model calls: one action is one call of the generative model or *)
(* of a judge/analysis model together with all local code that follows it  *)
(* up to the next call (or up to the response).  The outcome of a call is  *)
(* chosen nondeterministically from the outcomes the client library can    *)
(* produce (raise, response without image, response with image; for the    *)
(* judges: raise or a response text).                                      *)
(***************************************************************************)
EXTENDS Integers, Sequences, FiniteSets, TLC

\* ---------------------------------------------------------------- constants
\* Reliability settings (src/app.py:19-20).
MAX_GENERATION_ATTEMPTS == 3
MAX_VERIFICATION_RETRIES == 2

\* ------------------------------------------------------------------- bounds
\* Number of distinct background photographs clients upload.
MaxBgSources == 1

\* ------------------------------------------------------------------- values
\* An image (a bytes object).  src tells where the bytes come from, of is
\* the uploaded source they derive from (0: none), n the index of the model
\* call that produced them (0: not produced by a model call).
Img(src, of, n) == [src |-> src, of |-> of, n |-> n]
\* Python None / no such file in request.files.
NoImg == Img("none", 0, 0)
\* The product photograph a request uploads as its 'image' file.
ProductBytes == Img("product", 0, 0)
BgUploads == { Img("bg_upload", b, 0) : b \in 1..MaxBgSources }
\* A background render a client obtained earlier and uploads as
\* 'cachedBackground'.
IosBackground == Img("ios_cached", 1, 0)
\* The image clients save as a style master and upload as 'masterImage'.
MasterUploads == { Img("master_upload", 1, 0) }

\* hashlib.md5(data).hexdigest()[:12]: a deterministic function of the
\* bytes alone.  The digest of the modelled uploads is injective.
Md5Hex12(data) ==
    IF data.src = "bg_upload" THEN 40 + 3 * data.of
    ELSE IF data.src = "master_upload" THEN 70 + 5 * data.of
    ELSE IF data.src = "master_saved" THEN 80 + data.of
    ELSE IF data.src = "ios_cached" THEN 90
    ELSE IF data.src = "product" THEN 95
    ELSE 0

\* A key that does not depend on the bytes.
generate_cache_id_ignores_bytes(data_bytes, prefix) ==
    [prefix |-> prefix, digest |-> 0]

\* f"{prefix}{hash_obj.hexdigest()[:12]}"
generate_cache_id(data_bytes, prefix) ==
    [prefix |-> prefix, digest |-> Md5Hex12(data_bytes)]

\* request.form.get('backgroundId', '') / 'masterId' when absent or ''.
NoId == [prefix |-> "", digest |-> 0]
BgIds == { generate_cache_id(b, "bg_") : b \in BgUploads }
MasterIds == { generate_cache_id(m, "master_") : m \in MasterUploads }

\* ----------------------------------------------------- judge response text
\* The "issues" member of the judge's JSON object.
\*   missing: no such key      null: JSON null      str: a JSON string
\*   list: a list of strings (items)       badlist: a list with a non-string
IssuesVal(kind, items) == [kind |-> kind, items |-> items]
EmptyList == IssuesVal("list", <<>>)
IssueValues ==
    { IssuesVal("missing", <<>>), IssuesVal("null", <<>>),
      IssuesVal("str", <<"blurry">>), EmptyList,
      IssuesVal("list", <<"wrong color", "text lost">>),
      IssuesVal("badlist", <<>>) }

\* response.text of an analysis-model call.
\*   body: none (Python None), empty (""), blank (white space only),
\*         garbage (not JSON), array (a JSON value that is no object),
\*         object (a JSON object)
\*   fence: the body is wrapped in a Markdown ``` code fence
Text(fence, body, hasPass, pass, issues) ==
    [fence |-> fence, body |-> body, hasPass |-> hasPass, pass |-> pass,
     issues |-> issues]
PlainText(fence, body) ==
    Text(fence, body, FALSE, FALSE, IssuesVal("missing", <<>>))
\* "{}"
EmptyObjectText == PlainText(FALSE, "object")

JudgeTexts ==
    { PlainText(FALSE, "none") }
    \cup { PlainText(f, b) : f \in BOOLEAN,
                             b \in {"empty", "blank", "garbage", "array"} }
    \cup { Text(f, "object", TRUE, p, i) :
               f \in BOOLEAN, p \in BOOLEAN, i \in IssueValues }
    \cup { Text(f, "object", FALSE, FALSE, i) :
               f \in BOOLEAN, i \in IssueValues }

\* What client.models.generate_content does for a judge call.
JudgeReply(raises, text) == [raises |-> raises, text |-> text]
JudgeReplies ==
    { JudgeReply(TRUE, PlainText(FALSE, "none")) }
    \cup { JudgeReply(FALSE, t) : t \in JudgeTexts }

\* clean_json_text: a falsy text (None or "") becomes "{}"; otherwise the
\* text is stripped and a leading ```json / ``` and trailing ``` removed.
clean_json_text(text) ==
    IF ~text.fence /\ text.body \in {"none", "empty"}
    THEN EmptyObjectText
    ELSE [text EXCEPT !.fence = FALSE]

\* json.loads: raises on anything that is not JSON.
JsonLoadsRaises(text) ==
    text.fence \/ text.body \in {"none", "empty", "blank", "garbage"}

\* result.get(...) raises AttributeError unless result is a dict.
GetRaises(text) == text.body # "object"

\* result.get("issues", [])
GetIssues(text) ==
    IF text.issues.kind = "missing" THEN EmptyList ELSE text.issues

\* result.get("pass", False)
GetPass(text) == IF text.hasPass THEN text.pass ELSE FALSE

Verdict(passed, issues) == [passed |-> passed, issues |-> issues]

\* verify_generation: (passed, issues) of one composite judge call.
verify_generation(reply) ==
    LET text == clean_json_text(reply.text) IN
    IF reply.raises \/ JsonLoadsRaises(text) \/ GetRaises(text)
    THEN Verdict(TRUE, EmptyList)
    ELSE Verdict(GetPass(text), GetIssues(text))

\* A background judge that accepts when its answer has no "pass".
verify_background_reproduction_default_pass(reply) ==
    LET text == clean_json_text(reply.text) IN
    IF reply.raises \/ JsonLoadsRaises(text) \/ GetRaises(text)
    THEN TRUE
    ELSE (IF text.hasPass THEN text.pass ELSE TRUE)

\* verify_background_reproduction: True when the call or the parse fails.
verify_background_reproduction(reply) ==
    LET text == clean_json_text(reply.text) IN
    IF reply.raises \/ JsonLoadsRaises(text) \/ GetRaises(text)
    THEN TRUE
    ELSE GetPass(text)

\* What client.models.generate_content does for the analysis call of
\* /pregenerate-background and /save-master: it raises, or answers with a
\* text that is no JSON, a JSON array, or the JSON object asked for.
AnalysisReplies ==
    { JudgeReply(TRUE, PlainText(FALSE, "none")) }
    \cup { JudgeReply(FALSE, PlainText(f, b)) :
               f \in BOOLEAN, b \in {"garbage", "array", "object"} }

\* analysis = json.loads(clean_json_text(response.text)): whether the value
\* is a dict (analysis.get(...) works).
Analysis(is_dict) == [is_dict |-> is_dict]
NoAnalysis == Analysis(FALSE)

\* analysis.get("description", "") / analysis.get("material_scale", "") /
\* analysis.get("style_description", "") of the object asked for.
AnalysisDescription == "weathered oak planks"
AnalysisScale == "planks 4 inches wide"
AnalysisStyle == "soft warm light"

\* ', '.join(issues) raises TypeError for None and for non-string items; a
\* str is iterated character by character.
JoinRaises(issues) == issues.kind \in {"null", "badlist"}

\* ------------------------------------------------------ generate_with_retry
\* What client.models.generate_content does for a generative call.
GenOutcomes == {"raise", "noimage", "image"}

RetryResult(returned, image, error, attempt) ==
    [returned |-> returned, image |-> image, error |-> error,
     attempt |-> attempt]

\* generate_with_retry that gives up one attempt early.
generate_with_retry_short(attempt, max_attempts, outcome, image) ==
    IF outcome = "image"
    THEN RetryResult(TRUE, image, FALSE, attempt)
    ELSE IF attempt + 2 < max_attempts
         THEN RetryResult(FALSE, NoImg, FALSE, attempt + 1)
         ELSE RetryResult(TRUE, NoImg, TRUE, attempt)

\* generate_with_retry that goes on calling after a success while attempts
\* are left.
generate_with_retry_keeps_going(attempt, max_attempts, outcome, image) ==
    IF attempt + 1 < max_attempts
    THEN RetryResult(FALSE, NoImg, FALSE, attempt + 1)
    ELSE IF outcome = "image"
         THEN RetryResult(TRUE, image, FALSE, attempt)
         ELSE RetryResult(TRUE, NoImg, TRUE, attempt)

\* One iteration of the loop of generate_with_retry: `attempt` is the loop
\* variable, `outcome` what the model call did, `image` the inline data of
\* the response.  returned: the function returns (image, error); otherwise
\* the loop goes on with attempt + 1.
generate_with_retry(attempt, max_attempts, outcome, image) ==
    IF outcome = "image"
    THEN RetryResult(TRUE, image, FALSE, attempt)
    ELSE IF attempt + 1 < max_attempts
         THEN RetryResult(FALSE, NoImg, FALSE, attempt + 1)
         ELSE RetryResult(TRUE, NoImg, TRUE, attempt)

\* ------------------------------------------------------------------ prompts
\* The "FIX THESE ISSUES: ..." / "FIX: ..." suffix of a repair prompt.
Fix(has, issues) == [has |-> has, issues |-> issues]
NoFix == Fix(FALSE, EmptyList)

\* The trailing instruction block of a generative call: which builder wrote
\* it, whether its legend names a style reference, the text background
\* description it carries, and the repair suffix.
Prompt(builder, has_master, background, fix) ==
    [builder |-> builder, has_master |-> has_master,
     background |-> background, fix |-> fix]
NoPrompt == Prompt("none", FALSE, "", NoFix)

\* build_v1_prompt: carries "BACKGROUND: {background_description}".
build_v1_prompt(background_description, has_master) ==
    Prompt("v1", has_master, background_description, NoFix)

\* build_stage2_prompt: has no text background description.
build_stage2_prompt(has_master) == Prompt("stage2", has_master, "", NoFix)

\* stage1_prompt of generate_studio_image_v2.
stage1_prompt == Prompt("stage1", FALSE, "", NoFix)

\* gen_prompt of pregenerate_background.
gen_prompt == Prompt("pregen", FALSE, "", NoFix)

\* content_parts: the image parts in order, then the instruction block.
Parts(images, prompt) == [images |-> images, prompt |-> prompt]
NoParts == Parts(<<>>, NoPrompt)

\* The image parts of the V1 prompt: [master?] product.
V1Images(master_image) ==
    (IF master_image # NoImg THEN <<master_image>> ELSE <<>>)
        \o <<ProductBytes>>

\* The image parts of the Stage-2 prompt: [master?] background product.
Stage2Images(master_image, stage1_image) ==
    (IF master_image # NoImg THEN <<master_image>> ELSE <<>>)
        \o <<stage1_image, ProductBytes>>

\* Iterating a Python str yields its characters.
StrChars(str) ==
    IF str = "blurry" THEN <<"b", "l", "u", "r", "r", "y">> ELSE <<str>>

\* ', '.join(issues): the pieces the separator is put between.  A list
\* gives its items, a str its characters.
JoinPieces(issues) ==
    IF issues.kind = "str" THEN StrChars(issues.items[1]) ELSE issues.items

\* The text ', '.join(issues) as the sequence of its pieces.
Joined(issues) == IssuesVal("joined", JoinPieces(issues))

\* The repair prompt: the original prompt followed by the fix directive
\* with ', '.join(issues).
WithFix(parts, issues) ==
    [parts EXCEPT !.prompt.fix = Fix(TRUE, Joined(issues))]

\* ---------------------------------------------------------------- responses
Response(status, message, image, has_warnings, warnings) ==
    [status |-> status, message |-> message, image |-> image,
     has_warnings |-> has_warnings, warnings |-> warnings]
NoResponse == Response(0, "", NoImg, FALSE, EmptyList)
\* jsonify({"error": ...}), code
ErrorResponse(status) == Response(status, "error", NoImg, FALSE, EmptyList)
\* jsonify({"message": ..., "image": ...})
ImageResponse(message, image) == Response(200, message, image, FALSE, EmptyList)
\* jsonify({"message": ..., "image": ..., "warnings": ...})
WarningResponse(message, image, warnings) ==
    Response(200, message, image, TRUE, warnings)

\* ----------------------------------------------------------------- requests
\* request.form.get('backgroundDescription', '')
Descriptions == {"", "white marble"}

\* The files and form fields of a generation request that decide which
\* stages run.  A field is NoImg / NoId when the request does not have it.
Request(endpoint, image, backgroundId, backgroundImage, cachedBackground, backgroundDescription, masterId, masterImage) ==
    [endpoint |-> endpoint, image |-> image, backgroundId |-> backgroundId,
     backgroundImage |-> backgroundImage,
     cachedBackground |-> cachedBackground,
     backgroundDescription |-> backgroundDescription,
     masterId |-> masterId, masterImage |-> masterImage]

\* POST /generate-studio-image: the handler reads no background file or id.
V1Requests ==
    { Request("v1", i, NoId, NoImg, NoImg, d, m, mi) :
        i \in {NoImg, ProductBytes}, d \in Descriptions,
        m \in {NoId} \cup MasterIds, mi \in {NoImg} \cup MasterUploads }

\* POST /generate-studio-image-v2
V2Requests ==
    { Request("v2", i, b, bi, cb, d, m, mi) :
        i \in {NoImg, ProductBytes}, b \in {NoId} \cup BgIds,
        bi \in {NoImg} \cup BgUploads, cb \in {NoImg, IosBackground},
        d \in Descriptions,
        m \in {NoId} \cup MasterIds, mi \in {NoImg} \cup MasterUploads }

\* -------------------------------------------------------------------- state
VARIABLES
    BACKGROUND_CACHE,   \* background_id -> [image, description, scale]
    MASTER_CACHE,       \* master_id -> [image, style]
    pc,                 \* where the handler of the current request stands
    req,                \* the current request: its endpoint, 'image' file
    loc,                \* the handler's local variables
    obs,                \* the external calls the current request has made
    resp,               \* the response of the current request
    hist                \* what the request before the current one did

vars == <<BACKGROUND_CACHE, MASTER_CACHE, pc, req, loc, obs, resp, hist>>

\* The request as the handler keeps it after reading its fields: the
\* endpoint and the 'image' file; what it read from the other fields is in
\* the handler's locals.
Current(endpoint, image) == [endpoint |-> endpoint, image |-> image]
NoRequest == Current("none", NoImg)

\* attempt: loop variable of generate_with_retry
\* generated, error: what the last generate_with_retry returned
\* passed, issues: what the last verify_generation returned (issues is kept
\*                 when the image was rejected: it is not read otherwise)
\* verify_attempt: loop variable of the verify loop
\* s1_attempt: loop variable of the Stage-1 loop
\* background_id: the form's backgroundId when BACKGROUND_CACHE has it (the
\*                handler reads it in no other case)
\* repeat: the request uploads the backgroundImage of the request handled
\*         just before it, whose Stage 1 succeeded (history, not code)
Locals(attempt, verify_attempt, s1_attempt, background_image, cached_background, background_description, stage1_image, master_image, generated, error, passed, issues, parts, repeat, analysis, background_id) ==
    [attempt |-> attempt, verify_attempt |-> verify_attempt,
     s1_attempt |-> s1_attempt, background_image |-> background_image,
     cached_background |-> cached_background,
     background_description |-> background_description,
     stage1_image |-> stage1_image, master_image |-> master_image,
     generated |-> generated, error |-> error, passed |-> passed,
     issues |-> issues, parts |-> parts, repeat |-> repeat,
     analysis |-> analysis, background_id |-> background_id]
NoLocals ==
    Locals(0, 0, 0, NoImg, NoImg, "", NoImg, NoImg, NoImg, FALSE, FALSE,
           EmptyList, NoParts, FALSE, NoAnalysis, NoId)

\* stage1_calls: Stage-1 (background synthesis) generative calls
\* runs: calls of generate_with_retry for a composite (V1, Stage 2, fallback)
\* run_calls: model calls made by the generate_with_retry of the current
\*            iteration (the request's composite calls are the sum over runs)
\* judge_calls: verify_generation calls
\* judge_failed: the last of them raised, or answered with a text that is
\*               not a JSON object
\* judged: the (original, generated) pairs handed to verify_generation
\* sent: the content parts of the last composite call
\* bg_accepted: the Stage-1 output verify_background_reproduction accepted
\* bg_verdict: what the background judge of /pregenerate-background did in
\*             its last call (for that handler judge_calls and judged count
\*             the calls of verify_background_reproduction)
Observed(stage1_calls, runs, run_calls, judge_calls, judge_failed, judged, sent, bg_accepted, bg_verdict) ==
    [stage1_calls |-> stage1_calls, runs |-> runs, run_calls |-> run_calls,
     judge_calls |-> judge_calls, judge_failed |-> judge_failed,
     judged |-> judged, sent |-> sent, bg_accepted |-> bg_accepted,
     bg_verdict |-> bg_verdict]
NoObserved == Observed(0, 0, 0, 0, FALSE, {}, NoParts, NoImg, "none")

\* prev_stage1: while the server is idle, the backgroundImage of the request
\* it handled last when that was a V2 request whose Stage 1 succeeded (else
\* NoImg).  bg_before, master_before: the caches as they were when the
\* current request began.
History(prev_stage1, bg_before, master_before) ==
    [prev_stage1 |-> prev_stage1, bg_before |-> bg_before,
     master_before |-> master_before]

Init ==
    /\ BACKGROUND_CACHE = << >>
    /\ MASTER_CACHE = << >>
    /\ pc = "idle"
    /\ req = NoRequest
    /\ loc = NoLocals
    /\ obs = NoObserved
    /\ resp = NoResponse
    /\ hist = History(NoImg, << >>, << >>)

\* The handler returns `response`.
Return(response) ==
    /\ pc' = "done"
    /\ resp' = response

\* A request arrives while no other is being handled.
Arrive(request) ==
    /\ pc = "idle"
    /\ req' = Current(request.endpoint, request.image)
    /\ hist' = History(NoImg, BACKGROUND_CACHE, MASTER_CACHE)

\* MissingImage that lets every request through.
MissingImage_unchecked(request) == FALSE

\* 'image' not in request.files
MissingImage(request) == request.image = NoImg

\* master_id in MASTER_CACHE wins; else the uploaded masterImage; else None.
ResolveMaster(request) ==
    IF request.masterId # NoId /\ request.masterId \in DOMAIN MASTER_CACHE
    THEN MASTER_CACHE[request.masterId].image
    ELSE request.masterImage

\* The image the composite model returns in verify iteration `iteration`
\* (each run of generate_with_retry returns at most one image).
Composite(iteration) == Img("composite", 0, iteration + 1)

\* obs after a composite model call with the current content parts; the
\* call with attempt = 0 is the first of a new run of generate_with_retry.
CompositeCalled ==
    [obs EXCEPT !.runs = IF loc.attempt = 0 THEN @ + 1 ELSE @,
                !.run_calls = IF loc.attempt = 0 THEN 1 ELSE @ + 1,
                !.sent = loc.parts]

\* The judge call raised, or its response text is not a JSON object
\* (possibly inside a Markdown fence).
JudgeFailed(reply) == reply.raises \/ reply.text.body # "object"

\* obs after verify_generation(main_image_bytes, generated, ...).
JudgeCalled(generated, reply) ==
    [obs EXCEPT !.judge_calls = @ + 1,
                !.judge_failed = JudgeFailed(reply),
                !.judged = @ \cup {<<req.image, generated>>}]

\* ------------------------------------------------- /generate-studio-image
\* The handler up to its first model call.
V1Start ==
    \E request \in V1Requests :
        /\ Arrive(request)
        /\ IF MissingImage(request)
           THEN /\ Return(ErrorResponse(400))
                /\ UNCHANGED loc
           ELSE LET master_image == ResolveMaster(request) IN
                /\ loc' = [NoLocals EXCEPT
                      !.master_image = master_image,
                      !.background_description =
                          request.backgroundDescription,
                      !.parts = Parts(V1Images(master_image),
                                      build_v1_prompt(
                                          request.backgroundDescription,
                                          master_image # NoImg))]
                /\ pc' = "v1_gen"
                /\ UNCHANGED resp
        /\ UNCHANGED <<BACKGROUND_CACHE, MASTER_CACHE, obs>>

\* One model call of generate_with_retry in the verify loop of V1, and what
\* the loop does with its result.
V1Generate ==
    /\ pc = "v1_gen"
    /\ \E outcome \in GenOutcomes :
         LET r == generate_with_retry(loc.attempt, MAX_GENERATION_ATTEMPTS,
                                      outcome,
                                      Composite(loc.verify_attempt)) IN
         /\ obs' = CompositeCalled
         /\ IF ~r.returned
            THEN /\ loc' = [loc EXCEPT !.attempt = r.attempt]
                 /\ UNCHANGED <<pc, resp>>
            ELSE IF r.error
            THEN /\ Return(ErrorResponse(500))
                 /\ loc' = [loc EXCEPT !.generated = NoImg, !.error = TRUE]
            ELSE /\ loc' = [loc EXCEPT !.generated = r.image]
                 /\ pc' = "v1_verify"
                 /\ UNCHANGED resp
    /\ UNCHANGED <<BACKGROUND_CACHE, MASTER_CACHE, req, hist>>

\* verify_generation in the verify loop of V1, and the rest of the
\* iteration.
V1Verify ==
    /\ pc = "v1_verify"
    /\ \E reply \in JudgeReplies :
         LET v == verify_generation(reply) IN
         /\ obs' = JudgeCalled(loc.generated, reply)
         /\ IF v.passed
            THEN /\ Return(ImageResponse("Image generated successfully",
                                         loc.generated))
                 /\ loc' = [loc EXCEPT !.passed = TRUE]
            ELSE IF loc.verify_attempt < MAX_VERIFICATION_RETRIES
            THEN IF JoinRaises(v.issues)
                 THEN /\ Return(ErrorResponse(500))
                      /\ loc' = [loc EXCEPT !.issues = v.issues]
                 ELSE /\ loc' = [loc EXCEPT
                            !.issues = v.issues,
                            !.parts = WithFix(@, v.issues),
                            !.verify_attempt = @ + 1,
                            !.attempt = 0]
                      /\ pc' = "v1_gen"
                      /\ UNCHANGED resp
            ELSE /\ Return(WarningResponse("Generated with potential issues",
                                           loc.generated, v.issues))
                 /\ loc' = [loc EXCEPT !.issues = v.issues]
    /\ UNCHANGED <<BACKGROUND_CACHE, MASTER_CACHE, req, hist>>

\* ---------------------------------------------- /generate-studio-image-v2
\* generate_v1_internal that still sends the background reference.
EnterFallback_keeps_background(l) ==
    [l EXCEPT !.attempt = 0,
              !.parts = Parts(<<l.background_image>>
                                  \o V1Images(l.master_image),
                              build_v1_prompt(l.background_description,
                                              l.master_image # NoImg))]

\* generate_v1_internal up to its model call: the V1 content parts.
EnterFallback(l) ==
    [l EXCEPT !.attempt = 0,
              !.parts = Parts(V1Images(l.master_image),
                              build_v1_prompt(l.background_description,
                                              l.master_image # NoImg))]

\* A Stage 2 that composes onto the request's background file as uploaded.
EnterStage2_raw_background(l, stage1_image) ==
    [l EXCEPT !.stage1_image = stage1_image,
              !.background_description = "",
              !.attempt = 0,
              !.verify_attempt = 0,
              !.parts = Parts(Stage2Images(l.master_image, l.background_image),
                              build_stage2_prompt(l.master_image # NoImg))]

\* "Stage 2: Composite" up to the verify loop: the Stage-2 content parts.
\* (background_description is not read from here on.)
EnterStage2(l, stage1_image) ==
    [l EXCEPT !.stage1_image = stage1_image,
              !.background_description = "",
              !.attempt = 0,
              !.verify_attempt = 0,
              !.parts = Parts(Stage2Images(l.master_image, stage1_image),
                              build_stage2_prompt(l.master_image # NoImg))]

\* background_id when "background_id and background_id in BACKGROUND_CACHE".
ResolveBackgroundId(request) ==
    IF request.backgroundId # NoId
       /\ request.backgroundId \in DOMAIN BACKGROUND_CACHE
    THEN request.backgroundId
    ELSE NoId

\* background_id in BACKGROUND_CACHE: the stored image; else None.
ResolveCachedBackground(request) ==
    IF request.backgroundId # NoId
       /\ request.backgroundId \in DOMAIN BACKGROUND_CACHE
    THEN BACKGROUND_CACHE[request.backgroundId].image
    ELSE NoImg

\* The cached background, else the 'backgroundImage' file, else the
\* 'cachedBackground' file, else None.
ResolveBackground(request) ==
    IF ResolveCachedBackground(request) # NoImg
    THEN ResolveCachedBackground(request)
    ELSE IF request.backgroundImage # NoImg
         THEN request.backgroundImage
         ELSE request.cachedBackground

\* The form's backgroundDescription, else the description of the cached
\* background.
ResolveDescription(request) ==
    IF ResolveCachedBackground(request) # NoImg
       /\ request.backgroundDescription = ""
    THEN BACKGROUND_CACHE[request.backgroundId].description
    ELSE request.backgroundDescription

\* A handler that skips Stage 1 for every request.
SkipsStage1_always(cached_background) == TRUE

\* "If using cached background, skip Stage 1".
SkipsStage1(cached_background) == cached_background # NoImg

\* The handler up to its first model call.
V2Start ==
    \E request \in V2Requests :
        /\ Arrive(request)
        /\ IF MissingImage(request)
           THEN /\ Return(ErrorResponse(400))
                /\ UNCHANGED loc
           ELSE LET l == [NoLocals EXCEPT
                            !.master_image = ResolveMaster(request),
                            !.background_id = ResolveBackgroundId(request),
                            !.cached_background =
                                ResolveCachedBackground(request),
                            !.background_image = ResolveBackground(request),
                            !.background_description =
                                ResolveDescription(request),
                            !.repeat =
                                /\ request.backgroundImage # NoImg
                                /\ request.backgroundImage = hist.prev_stage1]
                IN
                /\ UNCHANGED resp
                /\ IF l.background_image = NoImg
                   THEN /\ loc' = EnterFallback(l)
                        /\ pc' = "fb_gen"
                   ELSE IF SkipsStage1(l.cached_background)
                   THEN /\ loc' = EnterStage2(l, l.cached_background)
                        /\ pc' = "v2_s2_gen"
                   ELSE /\ loc' = [l EXCEPT
                              !.parts = Parts(<<l.background_image>>,
                                              stage1_prompt)]
                        /\ pc' = "v2_s1_gen"
        /\ UNCHANGED <<BACKGROUND_CACHE, MASTER_CACHE, obs>>

\* A Stage-1 loop that repeats its last iteration instead of giving up.
Stage1NextAttempt_never_gives_up ==
    /\ loc' = [loc EXCEPT
          !.s1_attempt = IF @ + 1 < MAX_GENERATION_ATTEMPTS THEN @ + 1 ELSE @,
          !.generated = NoImg]
    /\ pc' = "v2_s1_gen"

\* The end of an iteration of the Stage-1 loop that produced no accepted
\* background: the next iteration, or after the last one "Stage 1 failed,
\* using V1".
Stage1NextAttempt ==
    IF loc.s1_attempt + 1 < MAX_GENERATION_ATTEMPTS
    THEN /\ loc' = [loc EXCEPT !.s1_attempt = @ + 1, !.generated = NoImg]
         /\ pc' = "v2_s1_gen"
    ELSE /\ loc' = EnterFallback([loc EXCEPT !.generated = NoImg])
         /\ pc' = "fb_gen"

\* generate_with_retry(stage1_parts, quality, max_attempts=1) in the
\* Stage-1 loop.
V2Stage1Generate ==
    /\ pc = "v2_s1_gen"
    /\ \E outcome \in GenOutcomes :
         LET r == generate_with_retry(
                      0, 1, outcome,
                      Img("stage1", loc.background_image.of,
                          loc.s1_attempt + 1)) IN
         /\ obs' = [obs EXCEPT !.stage1_calls = @ + 1]
         /\ IF r.returned /\ ~r.error
            THEN /\ loc' = [loc EXCEPT !.generated = r.image]
                 /\ pc' = "v2_s1_verify"
            ELSE Stage1NextAttempt
    /\ UNCHANGED <<BACKGROUND_CACHE, MASTER_CACHE, req, resp, hist>>

\* verify_background_reproduction(background_image, stage1_bytes, False)
\* in the Stage-1 loop.
V2Stage1Verify ==
    /\ pc = "v2_s1_verify"
    /\ \E reply \in JudgeReplies :
         /\ IF verify_background_reproduction(reply)
            THEN /\ loc' = EnterStage2([loc EXCEPT !.generated = NoImg],
                                       loc.generated)
                 /\ pc' = "v2_s2_gen"
                 /\ obs' = [obs EXCEPT !.bg_accepted = loc.generated]
            ELSE /\ Stage1NextAttempt
                 /\ UNCHANGED obs
    /\ UNCHANGED <<BACKGROUND_CACHE, MASTER_CACHE, req, resp, hist>>

\* One model call of generate_with_retry in the Stage-2 verify loop.
V2Stage2Generate ==
    /\ pc = "v2_s2_gen"
    /\ \E outcome \in GenOutcomes :
         LET r == generate_with_retry(loc.attempt, MAX_GENERATION_ATTEMPTS,
                                      outcome,
                                      Composite(loc.verify_attempt)) IN
         /\ obs' = CompositeCalled
         /\ IF ~r.returned
            THEN /\ loc' = [loc EXCEPT !.attempt = r.attempt]
                 /\ UNCHANGED <<pc, resp>>
            ELSE IF r.error
            THEN /\ Return(WarningResponse(
                        "Partial - background only", loc.stage1_image,
                        IssuesVal("list", <<"Composite failed">>)))
                 /\ loc' = [loc EXCEPT !.generated = NoImg, !.error = TRUE]
            ELSE /\ loc' = [loc EXCEPT !.generated = r.image]
                 /\ pc' = "v2_s2_verify"
                 /\ UNCHANGED resp
    /\ UNCHANGED <<BACKGROUND_CACHE, MASTER_CACHE, req, hist>>

\* verify_generation in the Stage-2 verify loop, and the rest of the
\* iteration; after the last iteration "Generated with issues".
V2Stage2Verify ==
    /\ pc = "v2_s2_verify"
    /\ \E reply \in JudgeReplies :
         LET v == verify_generation(reply) IN
         /\ obs' = JudgeCalled(loc.generated, reply)
         /\ IF v.passed
            THEN /\ Return(ImageResponse("Success", loc.generated))
                 /\ loc' = [loc EXCEPT !.passed = TRUE]
            ELSE IF loc.verify_attempt < MAX_VERIFICATION_RETRIES
            THEN IF JoinRaises(v.issues)
                 THEN /\ Return(ErrorResponse(500))
                      /\ loc' = [loc EXCEPT !.issues = v.issues]
                 ELSE /\ loc' = [loc EXCEPT
                            !.issues = v.issues,
                            !.parts = WithFix(@, v.issues),
                            !.verify_attempt = @ + 1,
                            !.attempt = 0]
                      /\ pc' = "v2_s2_gen"
                      /\ UNCHANGED resp
            ELSE /\ Return(WarningResponse("Generated with issues",
                                           loc.generated, v.issues))
                 /\ loc' = [loc EXCEPT !.issues = v.issues]
    /\ UNCHANGED <<BACKGROUND_CACHE, MASTER_CACHE, req, hist>>

\* One model call of generate_with_retry in generate_v1_internal, and the
\* response it builds.
FallbackGenerate ==
    /\ pc = "fb_gen"
    /\ \E outcome \in GenOutcomes :
         LET r == generate_with_retry(loc.attempt, MAX_GENERATION_ATTEMPTS,
                                      outcome, Composite(0)) IN
         /\ obs' = CompositeCalled
         /\ IF ~r.returned
            THEN /\ loc' = [loc EXCEPT !.attempt = r.attempt]
                 /\ UNCHANGED <<pc, resp>>
            ELSE IF r.error
            THEN /\ Return(ErrorResponse(500))
                 /\ loc' = [loc EXCEPT !.generated = NoImg, !.error = TRUE]
            ELSE /\ Return(ImageResponse("Success", r.image))
                 /\ loc' = [loc EXCEPT !.generated = r.image]
    /\ UNCHANGED <<BACKGROUND_CACHE, MASTER_CACHE, req, hist>>

\* ------------------------------------------------ /pregenerate-background
\* POST /pregenerate-background with or without an 'image' file.
PregenRequests ==
    { Request("pregen", i, NoId, NoImg, NoImg, "", NoId, NoImg) :
        i \in {NoImg} \cup BgUploads }

\* An entry that keeps the source photograph instead of the render.
BackgroundEntry_stores_source(image, description, scale) ==
    [image |-> Img("bg_upload", image.of, 0), description |-> description,
     scale |-> scale]

\* BACKGROUND_CACHE[bg_id] = {"image": ..., "description": ..., "scale": ...}
BackgroundEntry(image, description, scale) ==
    [image |-> image, description |-> description, scale |-> scale]

\* A handler that never finds the fingerprint in the cache.
CacheHit_never(bg_id) == FALSE

\* "Check if already cached": bg_id in BACKGROUND_CACHE
CacheHit(bg_id) == bg_id \in DOMAIN BACKGROUND_CACHE

\* The handler up to the analysis call: 400, the cache hit, or a miss.
PregenStart ==
    \E request \in PregenRequests :
        LET bg_id == generate_cache_id(request.image, "bg_") IN
        /\ Arrive(request)
        /\ IF MissingImage(request)
           THEN /\ Return(ErrorResponse(400))
                /\ UNCHANGED loc
           ELSE IF CacheHit(bg_id)
           THEN /\ Return(ImageResponse("Background retrieved from cache",
                                        BACKGROUND_CACHE[bg_id].image))
                /\ UNCHANGED loc
           ELSE /\ loc' = [NoLocals EXCEPT
                      !.background_image = request.image,
                      !.parts = Parts(<<request.image>>, gen_prompt)]
                /\ pc' = "pg_analysis"
                /\ UNCHANGED resp
        /\ UNCHANGED <<BACKGROUND_CACHE, MASTER_CACHE, obs>>

\* The analysis call and json.loads of its text; an exception here reaches
\* the handler's outer except.
PregenAnalyse ==
    /\ pc = "pg_analysis"
    /\ \E reply \in AnalysisReplies :
         LET text == clean_json_text(reply.text) IN
         IF reply.raises \/ JsonLoadsRaises(text)
         THEN /\ Return(ErrorResponse(500))
              /\ UNCHANGED loc
         ELSE /\ loc' = [loc EXCEPT !.analysis = Analysis(~GetRaises(text))]
              /\ pc' = "pg_gen"
              /\ UNCHANGED resp
    /\ UNCHANGED <<BACKGROUND_CACHE, MASTER_CACHE, req, obs, hist>>

\* A render loop that answers 200 after its last failed iteration.
PregenNextAttempt_answers_200 ==
    IF loc.s1_attempt + 1 < MAX_GENERATION_ATTEMPTS
    THEN /\ loc' = [loc EXCEPT !.s1_attempt = @ + 1, !.generated = NoImg]
         /\ pc' = "pg_gen"
         /\ UNCHANGED resp
    ELSE /\ Return(ImageResponse("Background pre-generated successfully",
                                 NoImg))
         /\ loc' = [loc EXCEPT !.generated = NoImg]

\* The end of an iteration of the render loop without an accepted render:
\* the next iteration, or after the last one "Failed to generate background".
PregenNextAttempt ==
    IF loc.s1_attempt + 1 < MAX_GENERATION_ATTEMPTS
    THEN /\ loc' = [loc EXCEPT !.s1_attempt = @ + 1, !.generated = NoImg]
         /\ pc' = "pg_gen"
         /\ UNCHANGED resp
    ELSE /\ Return(ErrorResponse(500))
         /\ loc' = [loc EXCEPT !.generated = NoImg]

\* One generative call of the render loop.  With a response image,
\* analysis.get("has_text", False) is evaluated next; it raises into the
\* loop's except when the analysis is no dict.
PregenGenerate ==
    /\ pc = "pg_gen"
    /\ \E outcome \in GenOutcomes :
         /\ obs' = [obs EXCEPT !.stage1_calls = @ + 1]
         /\ IF outcome = "image" /\ loc.analysis.is_dict
            THEN /\ loc' = [loc EXCEPT !.generated =
                       Img("pregen", loc.background_image.of,
                           loc.s1_attempt + 1)]
                 /\ pc' = "pg_verify"
                 /\ UNCHANGED resp
            ELSE PregenNextAttempt
    /\ UNCHANGED <<BACKGROUND_CACHE, MASTER_CACHE, req, hist>>

\* What the background judge did: its call raised or its text is no JSON
\* object (failed), or the object has "pass" true (pass), "pass" false
\* (reject) or no "pass" (nopass).
BgVerdict(reply) ==
    IF JudgeFailed(reply) THEN "failed"
    ELSE IF ~reply.text.hasPass THEN "nopass"
    ELSE IF reply.text.pass THEN "pass" ELSE "reject"

\* obs after verify_background_reproduction(bg_image_bytes, generated, ...)
\* of /pregenerate-background.
BgJudgeCalled(generated, reply) ==
    [JudgeCalled(generated, reply) EXCEPT
        !.bg_verdict = BgVerdict(reply),
        !.bg_accepted =
            IF verify_background_reproduction(reply) THEN generated ELSE @]

\* verify_background_reproduction in the render loop; on acceptance the
\* cache write and the response.
PregenVerify ==
    /\ pc = "pg_verify"
    /\ \E reply \in JudgeReplies :
         /\ obs' = BgJudgeCalled(loc.generated, reply)
         /\ IF verify_background_reproduction(reply)
            THEN LET bg_id == generate_cache_id(loc.background_image, "bg_")
                     entry == BackgroundEntry(loc.generated,
                                              AnalysisDescription,
                                              AnalysisScale) IN
                 /\ BACKGROUND_CACHE' =
                        [k \in DOMAIN BACKGROUND_CACHE \cup {bg_id} |->
                            IF k = bg_id THEN entry ELSE BACKGROUND_CACHE[k]]
                 /\ Return(ImageResponse(
                        "Background pre-generated successfully",
                        loc.generated))
                 /\ UNCHANGED loc
            ELSE /\ PregenNextAttempt
                 /\ UNCHANGED BACKGROUND_CACHE
    /\ UNCHANGED <<MASTER_CACHE, req, hist>>

\* ----------------------------------------------------------- master library
\* POST /save-master with or without an 'image' file.
SaveMasterRequests ==
    { Request("save_master", i, NoId, NoImg, NoImg, "", NoId, NoImg) :
        i \in {NoImg} \cup MasterUploads }

MasterEntry(image, style) == [image |-> image, style |-> style]

\* The handler up to the analysis call.
SaveMasterStart ==
    \E request \in SaveMasterRequests :
        /\ Arrive(request)
        /\ IF MissingImage(request)
           THEN /\ Return(ErrorResponse(400))
                /\ UNCHANGED loc
           ELSE /\ loc' = [NoLocals EXCEPT !.master_image = request.image]
                /\ pc' = "sm_analysis"
                /\ UNCHANGED resp
        /\ UNCHANGED <<BACKGROUND_CACHE, MASTER_CACHE, obs>>

\* The analysis call, the cache write and the response; the entry is
\* written only if building it raised nothing.
SaveMasterAnalyse ==
    /\ pc = "sm_analysis"
    /\ \E reply \in AnalysisReplies :
         LET text == clean_json_text(reply.text)
             master_id == generate_cache_id(loc.master_image, "master_") IN
         IF reply.raises \/ JsonLoadsRaises(text) \/ GetRaises(text)
         THEN /\ Return(ErrorResponse(500))
              /\ UNCHANGED MASTER_CACHE
         ELSE /\ MASTER_CACHE' =
                     [k \in DOMAIN MASTER_CACHE \cup {master_id} |->
                         IF k = master_id
                         THEN MasterEntry(loc.master_image, AnalysisStyle)
                         ELSE MASTER_CACHE[k]]
              /\ Return(Response(200, "Master saved successfully", NoImg,
                                 FALSE, EmptyList))
    /\ UNCHANGED <<BACKGROUND_CACHE, req, loc, obs, hist>>

\* GET /get-master/<master_id>
GetMaster ==
    \E master_id \in MasterIds :
        /\ Arrive(Request("get_master", NoImg, NoId, NoImg, NoImg, "",
                          master_id, NoImg))
        /\ IF master_id \notin DOMAIN MASTER_CACHE
           THEN Return(ErrorResponse(404))
           ELSE Return(ImageResponse("master",
                                     MASTER_CACHE[master_id].image))
        /\ UNCHANGED <<BACKGROUND_CACHE, MASTER_CACHE, loc, obs>>

\* DELETE /delete-master/<master_id>
DeleteMaster ==
    \E master_id \in MasterIds :
        /\ Arrive(Request("delete_master", NoImg, NoId, NoImg, NoImg, "",
                          master_id, NoImg))
        /\ IF master_id \in DOMAIN MASTER_CACHE
           THEN /\ MASTER_CACHE' =
                       [k \in DOMAIN MASTER_CACHE \ {master_id} |->
                           MASTER_CACHE[k]]
                /\ Return(Response(200, "Master deleted", NoImg, FALSE,
                                   EmptyList))
           ELSE /\ Return(ErrorResponse(404))
                /\ UNCHANGED MASTER_CACHE
        /\ UNCHANGED <<BACKGROUND_CACHE, loc, obs>>

\* ---------------------------------------------------------- cache management
\* request.form.get('type', 'all')
CacheTypes == {"all", "backgrounds", "masters", "thumbnails"}
\* The form's 'type' field: one of these values, the empty string, or no
\* such field.
CacheTypeFields == CacheTypes \cup {"", "(absent)"}

\* f"Cleared {cache_type} cache"
ClearedMessage(cache_type) ==
    IF cache_type = "all" THEN "Cleared all cache"
    ELSE IF cache_type = "backgrounds" THEN "Cleared backgrounds cache"
    ELSE IF cache_type = "masters" THEN "Cleared masters cache"
    ELSE IF cache_type = "thumbnails" THEN "Cleared thumbnails cache"
    ELSE "Cleared  cache"

\* cache_type in ['all', 'backgrounds']
ClearsBackgrounds(cache_type) == cache_type \in {"all", "backgrounds"}

\* A test that also clears the masters for type 'backgrounds'.
ClearsMasters_with_backgrounds(cache_type) ==
    cache_type \in {"all", "masters", "backgrounds"}

\* cache_type in ['all', 'masters']
ClearsMasters(cache_type) == cache_type \in {"all", "masters"}

\* POST /clear-cache
ClearCache ==
    \E field \in CacheTypeFields :
        LET cache_type == IF field = "(absent)" THEN "all" ELSE field IN
        /\ Arrive(Request("clear_cache", NoImg, NoId, NoImg, NoImg, "",
                          NoId, NoImg))
        /\ BACKGROUND_CACHE' =
               IF ClearsBackgrounds(cache_type)
               THEN << >> ELSE BACKGROUND_CACHE
        /\ MASTER_CACHE' =
               IF ClearsMasters(cache_type) THEN << >> ELSE MASTER_CACHE
        /\ Return(Response(200, ClearedMessage(cache_type), NoImg, FALSE,
                           EmptyList))
        /\ UNCHANGED <<loc, obs>>

\* --------------------------------------------------------------- scheduling
\* Stage 1 of the current V2 request produced an accepted background.
Stage1Succeeded == loc.stage1_image.src = "stage1"

\* The response has been sent; the server is ready for the next request.
Finish ==
    /\ pc = "done"
    /\ pc' = "idle"
    /\ hist' = History(IF req.endpoint = "v2" /\ Stage1Succeeded
                          /\ loc.background_image.src = "bg_upload"
                       THEN loc.background_image ELSE NoImg,
                       BACKGROUND_CACHE, MASTER_CACHE)
    /\ req' = NoRequest
    /\ loc' = NoLocals
    /\ obs' = NoObserved
    /\ resp' = NoResponse
    /\ UNCHANGED <<BACKGROUND_CACHE, MASTER_CACHE>>

Next ==
    \/ V1Start
    \/ V1Generate
    \/ V1Verify
    \/ V2Start
    \/ V2Stage1Generate
    \/ V2Stage1Verify
    \/ V2Stage2Generate
    \/ V2Stage2Verify
    \/ FallbackGenerate
    \/ PregenStart
    \/ PregenAnalyse
    \/ PregenGenerate
    \/ PregenVerify
    \/ SaveMasterStart
    \/ SaveMasterAnalyse
    \/ GetMaster
    \/ DeleteMaster
    \/ ClearCache
    \/ Finish

Spec == Init /\ [][Next]_vars

\* ------------------------------------------------------------------- claims
\* The current request is a generation request.
IsGeneration == req.endpoint \in {"v1", "v2"}

\* The handler of the current request has answered.
Answered == pc = "done"

\* C1: a generation request without an 'image' file is answered 400, and
\* from its arrival to its answer no generative call and no judge call is
\* made and neither cache changes.
C1_MissingImageRejected ==
    (IsGeneration /\ req.image = NoImg) =>
        /\ Answered
        /\ resp = ErrorResponse(400)
        /\ obs = NoObserved
        /\ BACKGROUND_CACHE = hist.bg_before
        /\ MASTER_CACHE = hist.master_before

\* C1 witness: a V2 request without product image has been answered 400
\* while both caches hold entries.
C1_Witness ==
    /\ Answered
    /\ req = Current("v2", NoImg)
    /\ resp.status = 400
    /\ BACKGROUND_CACHE # << >>
    /\ MASTER_CACHE # << >>

\* A composite run of generate_with_retry is under way or has returned.
CompositeEndpoints == {"v1_gen", "v2_s2_gen", "fb_gen"}

AllRejected ==
    /\ Answered
    /\ IsGeneration
    /\ obs.judge_calls > 0
    /\ ~loc.passed
    /\ ~loc.error

\* json.dumps of the value is a non-empty list.
NonEmptyList(issues) == issues.kind \in {"list", "badlist"} /\ issues # EmptyList

\* C3: when every generation succeeds and the judge rejects every image
\* (here: its last answer is a JSON object with "issues" a list of strings),
\* the request makes MAX_VERIFICATION_RETRIES + 1 generations and no more,
\* and is answered 200 with the image of the last generation and a
\* non-empty warnings list.
C3_RepairBoundThenWarnings ==
    /\ obs.runs <= MAX_VERIFICATION_RETRIES + 1
    /\ (AllRejected /\ ~obs.judge_failed /\ loc.issues.kind = "list") =>
           /\ obs.runs = MAX_VERIFICATION_RETRIES + 1
           /\ resp.status = 200
           /\ resp.image = Composite(MAX_VERIFICATION_RETRIES)
           /\ resp.image = loc.generated
           /\ resp.has_warnings
           /\ NonEmptyList(resp.warnings)

\* C4: whenever the judge call raises or its response text is not a JSON
\* object, verify_generation returns (True, []), the image is accepted at
\* once and the response carries no warnings.
C4_JudgeFailOpen ==
    (IsGeneration /\ obs.judge_calls > 0 /\ obs.judge_failed) =>
        /\ loc.passed
        /\ Answered
        /\ resp.status = 200
        /\ resp.image = loc.generated
        /\ ~resp.has_warnings

\* C5: on every generation path, a composite generation that exhausts
\* MAX_GENERATION_ATTEMPTS without an image ends the request with a 500
\* response.
C5_ExhaustionIs500 ==
    (IsGeneration /\ loc.error) => (Answered /\ resp.status = 500)

\* C6: when Stage 1 of a V2 request with an uploaded backgroundImage
\* succeeds, its result is stored in BACKGROUND_CACHE under the fingerprint
\* of the uploaded bytes; and a V2 request that uploads the same bytes right
\* after it makes no Stage-1 call and uses the stored background.
C6_Stage1ResultCached ==
    /\ (Answered /\ req.endpoint = "v2" /\ Stage1Succeeded
        /\ loc.background_image.src = "bg_upload") =>
           LET bg_id == generate_cache_id(loc.background_image, "bg_") IN
           /\ bg_id \in DOMAIN BACKGROUND_CACHE
           /\ BACKGROUND_CACHE[bg_id].image = loc.stage1_image
    /\ (req.endpoint = "v2" /\ loc.repeat) =>
           /\ obs.stage1_calls = 0
           /\ pc \notin {"v2_s1_gen", "v2_s1_verify"}

\* C7: a V2 request makes a Stage-1 call only for an uploaded background
\* reference image; a pre-rendered background, given as 'cachedBackground'
\* file or as a backgroundId found in BACKGROUND_CACHE, never goes through
\* Stage 1.
C7_Stage1OnlyForReference ==
    (req.endpoint = "v2"
     /\ (obs.stage1_calls > 0 \/ pc \in {"v2_s1_gen", "v2_s1_verify"})) =>
        /\ loc.background_image.src = "bg_upload"
        /\ loc.cached_background = NoImg

\* All MAX_GENERATION_ATTEMPTS Stage-1 attempts of the current V2 request
\* have failed.
Stage1Exhausted ==
    /\ req.endpoint = "v2"
    /\ obs.stage1_calls = MAX_GENERATION_ATTEMPTS
    /\ pc # "v2_s1_verify"
    /\ ~Stage1Succeeded

\* No background image among the image parts.
NoBackgroundPart(parts) ==
    \A i \in 1..Len(parts.images) :
        parts.images[i].src \in {"master_upload", "product"}

\* C8: after Stage-1 exhaustion the request goes on to one composite
\* generation whose parts hold no background image and whose prompt is the
\* V1 prompt with the text background description; that generation alone
\* decides the answer: its image with 200, or 500 when it yields none.
C8_Stage1ExhaustionFallsBack ==
    Stage1Exhausted =>
        /\ pc \in {"fb_gen", "done"}
        /\ NoBackgroundPart(loc.parts)
        /\ loc.parts.prompt = build_v1_prompt(loc.background_description,
                                              loc.master_image # NoImg)
        /\ obs.run_calls > 0 => obs.sent = loc.parts
        /\ obs.judge_calls = 0
        /\ Answered =>
               /\ obs.runs = 1
               /\ \/ loc.error /\ resp = ErrorResponse(500)
                  \/ /\ ~loc.error
                     /\ loc.generated = Composite(0)
                     /\ resp = ImageResponse("Success", loc.generated)

\* C8 witness: Stage 1 failed three times and the text-only composite
\* succeeded with a background description in its prompt.
C8_Witness ==
    /\ Answered
    /\ Stage1Exhausted
    /\ resp.status = 200
    /\ obs.sent.prompt.background = "white marble"

\* C9: every composite image returned in a success response was handed to
\* verify_generation together with the product bytes.
C9_ReturnedImageWasJudged ==
    (Answered /\ IsGeneration /\ resp.status = 200
     /\ resp.image.src = "composite") =>
        <<ProductBytes, resp.image>> \in obs.judged

\* C10: a request (to the endpoint that answers "Success") with a product
\* image and no background input whose first generative call returns an
\* image that the judge passes: no Stage-1 call, one generative call, one
\* judge call, and the answer is 200 "Success" with that image and no
\* warnings.
C10_PlainRequestScenario ==
    (Answered /\ req.endpoint = "v2" /\ req.image = ProductBytes
     /\ loc.background_image = NoImg
     /\ obs.runs = 1 /\ obs.run_calls = 1 /\ ~loc.error
     /\ (obs.judge_calls > 0 => loc.passed)) =>
        /\ obs.stage1_calls = 0
        /\ obs.judge_calls = 1
        /\ resp = ImageResponse("Success", Composite(0))

\* The background image part of the Stage-2 content parts: it follows the
\* style master when there is one.
Stage2BackgroundPart(parts, master_image) ==
    parts.images[IF master_image # NoImg THEN 2 ELSE 1]

\* Every BACKGROUND_CACHE entry is filed under the fingerprint of the source
\* photograph its render was made for, every MASTER_CACHE entry under the
\* fingerprint of its own image.
CacheKeysAreFingerprints ==
    /\ \A k \in DOMAIN BACKGROUND_CACHE :
           /\ BACKGROUND_CACHE[k].image.src = "pregen"
           /\ k = generate_cache_id(
                      Img("bg_upload", BACKGROUND_CACHE[k].image.of, 0), "bg_")
    /\ \A k \in DOMAIN MASTER_CACHE :
           k = generate_cache_id(MASTER_CACHE[k].image, "master_")

\* C11: cache round-trip.  The render a successful /pregenerate-background
\* returns is the image it stored under the fingerprint of the source; a
\* later cache hit for the same source returns the stored image, and a V2
\* request with that backgroundId sends the stored image as the background
\* of Stage 2; /save-master stores the uploaded bytes and /get-master
\* returns the stored bytes; an entry that stays in a cache over a request
\* is not changed by it.
C11_CacheRoundTrip ==
    /\ CacheKeysAreFingerprints
    /\ \A k \in DOMAIN BACKGROUND_CACHE \cap DOMAIN hist.bg_before :
           BACKGROUND_CACHE[k] = hist.bg_before[k]
    /\ \A k \in DOMAIN MASTER_CACHE \cap DOMAIN hist.master_before :
           MASTER_CACHE[k].image = hist.master_before[k].image
    /\ (Answered /\ req.endpoint = "pregen" /\ resp.status = 200) =>
           LET bg_id == generate_cache_id(req.image, "bg_") IN
           /\ bg_id \in DOMAIN BACKGROUND_CACHE
           /\ resp.image = BACKGROUND_CACHE[bg_id].image
           /\ resp.message = "Background pre-generated successfully" =>
                  /\ resp.image = loc.generated
                  /\ bg_id \notin DOMAIN hist.bg_before
    /\ (req.endpoint = "v2" /\ loc.background_id # NoId) =>
           /\ loc.background_id \in DOMAIN BACKGROUND_CACHE
           /\ loc.cached_background =
                  BACKGROUND_CACHE[loc.background_id].image
           /\ loc.stage1_image = loc.cached_background
           /\ Stage2BackgroundPart(loc.parts, loc.master_image) =
                  loc.cached_background
           /\ obs.stage1_calls = 0
           /\ obs.run_calls > 0 => obs.sent.images = loc.parts.images
    /\ (Answered /\ req.endpoint = "save_master" /\ resp.status = 200) =>
           LET master_id == generate_cache_id(req.image, "master_") IN
           /\ master_id \in DOMAIN MASTER_CACHE
           /\ MASTER_CACHE[master_id].image = req.image
    /\ (Answered /\ req.endpoint = "get_master" /\ resp.status = 200) =>
           \E k \in DOMAIN MASTER_CACHE : resp.image = MASTER_CACHE[k].image

\* C11 witness: a V2 request answered with a judged composite whose
\* background part was the render stored by an earlier
\* /pregenerate-background, with a master from MASTER_CACHE before it.
C11_Witness ==
    /\ Answered
    /\ req.endpoint = "v2"
    /\ loc.background_id \in DOMAIN BACKGROUND_CACHE
    /\ loc.passed
    /\ Len(obs.sent.images) = 3
    /\ obs.sent.images[2] = BACKGROUND_CACHE[loc.background_id].image
    /\ obs.sent.images[2].src = "pregen"

\* ------------------------------------------------------------- form fields
\* Spec leaves out the form fields that do not influence which stages run.
\* FormSpec keeps them (orientation, quality, detail images) and follows
\* them into the arguments of the generative calls; it leaves out the texts
\* of the judges and the attempts inside one run of generate_with_retry,
\* which all get the same content parts and the same quality.

\* request.form.get(name, default) of a field the form does not have.
Absent == "(absent)"
FormGet(value, default) == IF value = Absent THEN default ELSE value

\* request.form.get('orientation', 'angled')
Orientations == {Absent, "flat_lay", "standing", "angled", "", "Flat_Lay"}
\* request.form.get('quality', '1K')
Qualities == {Absent, "1K", "2K", "4K", ""}
\* The detail{i} files of a request, i in 1..3.
DetailSets == SUBSET {1, 2, 3}
\* The indices i for which the form has a detail{i}Label field.
LabelSets == SUBSET {1, 2, 3}

FlatLayTemplate == "COMPOSITION: Top-down flat lay."
StandingTemplate == "COMPOSITION: Standing product shot."
AngledTemplate == "COMPOSITION: Natural angle matching reference."

\* build_composition_instruction that reads "flat_lay" as any other value.
build_composition_instruction_no_flat_lay(orientation) ==
    IF orientation = "standing" THEN StandingTemplate ELSE AngledTemplate

\* build_composition_instruction
build_composition_instruction(orientation) ==
    IF orientation = "flat_lay" THEN FlatLayTemplate
    ELSE IF orientation = "standing" THEN StandingTemplate
    ELSE AngledTemplate

\* A clamp that lets every supplied value through.
ClampQuality_keeps_all(quality) == quality

\* if quality not in ['1K', '2K']: quality = '1K'
ClampQuality(quality) == IF quality \notin {"1K", "2K"} THEN "1K" ELSE quality

\* The bytes of the detail{i} file.
DetailBytes(i) == Img("detail", i, 0)
\* The text of the form's detail{i}Label field / the default f'Detail {i}'.
Label(detail, supplied) == [detail |-> detail, supplied |-> supplied]

\* request.form.get(f'detail{i}Label', f'Detail {i}')
DetailLabel(i, labels) == Label(i, i \in labels)

\* A loop that ends at the first index without a file.
DetailIndices_stops_at_gap(files) ==
    SelectSeq(<<1, 2, 3>>, LAMBDA i : 1..i \subseteq files)

\* "for i in range(1, 4): if f'detail{i}' in request.files": the indices of
\* the detail files present, ascending.
DetailIndices(files) == SelectSeq(<<1, 2, 3>>, LAMBDA i : i \in files)
detail_images(files) ==
    [k \in 1..Len(DetailIndices(files)) |-> DetailBytes(DetailIndices(files)[k])]
detail_labels(files, labels) ==
    [k \in 1..Len(DetailIndices(files)) |->
        DetailLabel(DetailIndices(files)[k], labels)]

\* One line "Image {index} = {role}" of the legend; label names the detail
\* of a DETAIL line.
Role(index, role, label) == [index |-> index, role |-> role, label |-> label]
NoLabel == Label(0, FALSE)

\* roles.append(f"Image {start_idx + i} = DETAIL: {label}") for i, label in
\* enumerate(detail_labels)
DetailRoles(start_idx, labels) ==
    [k \in 1..Len(labels) |-> Role(start_idx + (k - 1), "DETAIL", labels[k])]

\* The image roles of build_v1_prompt.
v1_roles(has_master, labels) ==
    IF has_master
    THEN <<Role(1, "STYLE REFERENCE", NoLabel), Role(2, "PRODUCT", NoLabel)>>
             \o DetailRoles(3, labels)
    ELSE <<Role(1, "PRODUCT", NoLabel)>> \o DetailRoles(2, labels)

\* Image roles of build_stage2_prompt that count the details from 3 on also
\* when a style master is first.
stage2_roles_fixed_start(has_master, labels) ==
    IF has_master
    THEN <<Role(1, "STYLE REFERENCE", NoLabel), Role(2, "BACKGROUND", NoLabel),
           Role(3, "PRODUCT", NoLabel)>> \o DetailRoles(3, labels)
    ELSE <<Role(1, "BACKGROUND", NoLabel), Role(2, "PRODUCT", NoLabel)>>
             \o DetailRoles(3, labels)

\* The image roles of build_stage2_prompt.
stage2_roles(has_master, labels) ==
    IF has_master
    THEN <<Role(1, "STYLE REFERENCE", NoLabel), Role(2, "BACKGROUND", NoLabel),
           Role(3, "PRODUCT", NoLabel)>> \o DetailRoles(4, labels)
    ELSE <<Role(1, "BACKGROUND", NoLabel), Role(2, "PRODUCT", NoLabel)>>
             \o DetailRoles(3, labels)

\* The instruction block with its legend and composition section.
FormPrompt(builder, roles, composition, fix) ==
    [builder |-> builder, roles |-> roles, composition |-> composition,
     fix |-> fix]

\* content_parts of the V1 handler and of generate_v1_internal.
V1Parts(master_image, files, labels, orientation) ==
    Parts(V1Images(master_image) \o detail_images(files),
          FormPrompt("v1",
                     v1_roles(master_image # NoImg,
                              detail_labels(files, labels)),
                     build_composition_instruction(orientation), FALSE))

\* stage2_parts of the V2 handler.
Stage2Parts(master_image, stage1_image, files, labels, orientation) ==
    Parts(Stage2Images(master_image, stage1_image) \o detail_images(files),
          FormPrompt("stage2",
                     stage2_roles(master_image # NoImg,
                                  detail_labels(files, labels)),
                     build_composition_instruction(orientation), FALSE))

\* The form of the request being handled.
Form(endpoint, image, orientation, quality, details, labels) ==
    [endpoint |-> endpoint, image |-> image, orientation |-> orientation,
     quality |-> quality, details |-> details, labels |-> labels]
NoForm == Form("none", NoImg, Absent, Absent, {}, {})

\* The handler's locals.
FormLocals(quality, orientation, master_image, background_image, stage1_image, parts, verify_attempt, s1_attempt) ==
    [quality |-> quality, orientation |-> orientation,
     master_image |-> master_image, background_image |-> background_image,
     stage1_image |-> stage1_image, parts |-> parts,
     verify_attempt |-> verify_attempt, s1_attempt |-> s1_attempt]
NoFormLocals == FormLocals("", "", NoImg, NoImg, NoImg, NoParts, 0, 0)

\* calls: the (stage, image_size) of the generative calls made so far
\* sent: the content parts of the last composite call
FormObserved(calls, sent) == [calls |-> calls, sent |-> sent]
NoFormObserved == FormObserved({}, NoParts)

\* A generative call of `stage` with image_size = quality.
FormCall(stage, quality) == [stage |-> stage, quality |-> quality]

\* Both caches hold the entry of the first upload, or none.
FormCaches ==
    { <<(<< >>), (<< >>)>>,
      <<(generate_cache_id(Img("bg_upload", 1, 0), "bg_") :>
             BackgroundEntry(Img("pregen", 1, 1), AnalysisDescription,
                             AnalysisScale)),
        (generate_cache_id(Img("master_upload", 1, 0), "master_") :>
             MasterEntry(Img("master_upload", 1, 0), AnalysisStyle))>> }

FormInit ==
    /\ \E c \in FormCaches : BACKGROUND_CACHE = c[1] /\ MASTER_CACHE = c[2]
    /\ pc = "idle"
    /\ req = NoForm
    /\ loc = NoFormLocals
    /\ obs = NoFormObserved
    /\ resp = NoResponse
    /\ hist = History(NoImg, << >>, << >>)

\* /generate-studio-image up to its first generative call.
FormV1Start ==
    /\ pc = "idle"
    /\ \E request \in V1Requests, o \in Orientations, q \in Qualities,
          files \in DetailSets, labels \in LabelSets :
         /\ request.backgroundDescription = ""
         /\ req' = Form("v1", request.image, o, q, files, labels)
         /\ IF MissingImage(request)
            THEN /\ Return(ErrorResponse(400))
                 /\ UNCHANGED loc
            ELSE LET master_image == ResolveMaster(request)
                     orientation == FormGet(o, "angled") IN
                 /\ loc' = FormLocals(
                        ClampQuality(FormGet(q, "1K")), orientation,
                        master_image, NoImg, NoImg,
                        V1Parts(master_image, files, labels, orientation),
                        0, 0)
                 /\ pc' = "form_v1"
                 /\ UNCHANGED resp
    /\ UNCHANGED <<BACKGROUND_CACHE, MASTER_CACHE, obs, hist>>

\* generate_v1_internal up to its generative call.
FormEnterFallback(l, files, labels) ==
    [l EXCEPT !.parts = V1Parts(l.master_image, files, labels, l.orientation)]

\* "Stage 2: Composite" up to the verify loop.
FormEnterStage2(l, stage1_image, files, labels) ==
    [l EXCEPT !.stage1_image = stage1_image,
              !.parts = Stage2Parts(l.master_image, stage1_image, files,
                                    labels, l.orientation)]

\* /generate-studio-image-v2 up to its first generative call.
FormV2Start ==
    /\ pc = "idle"
    /\ \E request \in V2Requests, o \in Orientations, q \in Qualities,
          files \in DetailSets, labels \in LabelSets :
         /\ request.backgroundDescription = ""
         /\ req' = Form("v2", request.image, o, q, files, labels)
         /\ IF MissingImage(request)
            THEN /\ Return(ErrorResponse(400))
                 /\ UNCHANGED loc
            ELSE LET orientation == FormGet(o, "angled")
                     cached_background == ResolveCachedBackground(request)
                     l == FormLocals(
                              ClampQuality(FormGet(q, "1K")), orientation,
                              ResolveMaster(request),
                              ResolveBackground(request), NoImg,
                              NoParts, 0, 0) IN
                 /\ UNCHANGED resp
                 /\ IF l.background_image = NoImg
                    THEN /\ loc' = FormEnterFallback(l, files, labels)
                         /\ pc' = "form_fb"
                    ELSE IF SkipsStage1(cached_background)
                    THEN /\ loc' = FormEnterStage2(l, cached_background,
                                                    files, labels)
                         /\ pc' = "form_s2"
                    ELSE /\ loc' = [l EXCEPT
                               !.parts = Parts(<<l.background_image>>,
                                               stage1_prompt)]
                         /\ pc' = "form_s1"
    /\ UNCHANGED <<BACKGROUND_CACHE, MASTER_CACHE, obs, hist>>

\* One iteration of the Stage-1 loop: generate_with_retry(stage1_parts,
\* quality, max_attempts=1) and what follows it.
FormStage1 ==
    /\ pc = "form_s1"
    /\ obs' = [obs EXCEPT !.calls = @ \cup {FormCall("stage1", loc.quality)}]
    /\ \E accepted \in BOOLEAN :
         IF accepted
         THEN /\ loc' = FormEnterStage2(
                            loc, Img("stage1", loc.background_image.of,
                                     loc.s1_attempt + 1),
                            req.details, req.labels)
              /\ pc' = "form_s2"
         ELSE IF loc.s1_attempt + 1 < MAX_GENERATION_ATTEMPTS
         THEN /\ loc' = [loc EXCEPT !.s1_attempt = @ + 1]
              /\ pc' = "form_s1"
         ELSE /\ loc' = FormEnterFallback(loc, req.details, req.labels)
              /\ pc' = "form_fb"
    /\ UNCHANGED <<BACKGROUND_CACHE, MASTER_CACHE, req, resp, hist>>

\* One iteration of a verify loop (V1 or Stage 2): a run of
\* generate_with_retry(content_parts, quality), the judge call and the rest
\* of the iteration.  outcome: the run failed, the judge passed the image, or
\* it rejected the image.
FormVerifyIteration(stage, exhausted, final) ==
    /\ obs' = [obs EXCEPT !.calls = @ \cup {FormCall(stage, loc.quality)},
                          !.sent = loc.parts]
    /\ \E outcome \in {"error", "passed", "rejected"} :
         IF outcome = "error"
         THEN /\ Return(exhausted)
              /\ UNCHANGED loc
         ELSE IF outcome = "passed"
         THEN /\ Return(ImageResponse("passed", Composite(loc.verify_attempt)))
              /\ UNCHANGED loc
         ELSE IF loc.verify_attempt < MAX_VERIFICATION_RETRIES
         THEN /\ loc' = [loc EXCEPT !.verify_attempt = @ + 1,
                                    !.parts.prompt.fix = TRUE]
              /\ UNCHANGED <<pc, resp>>
         ELSE /\ Return(WarningResponse(final, Composite(loc.verify_attempt),
                                        EmptyList))
              /\ UNCHANGED loc
    /\ UNCHANGED <<BACKGROUND_CACHE, MASTER_CACHE, req, hist>>

FormV1Composite ==
    /\ pc = "form_v1"
    /\ FormVerifyIteration("v1", ErrorResponse(500),
                           "Generated with potential issues")

FormStage2Composite ==
    /\ pc = "form_s2"
    /\ FormVerifyIteration(
           "stage2",
           WarningResponse("Partial - background only", loc.stage1_image,
                           IssuesVal("list", <<"Composite failed">>)),
           "Generated with issues")

\* The run of generate_with_retry(content_parts, quality) of
\* generate_v1_internal and its response.
FormFallback ==
    /\ pc = "form_fb"
    /\ obs' = [obs EXCEPT !.calls = @ \cup {FormCall("fallback", loc.quality)},
                          !.sent = loc.parts]
    /\ \E ok \in BOOLEAN :
         IF ok THEN Return(ImageResponse("Success", Composite(0)))
         ELSE Return(ErrorResponse(500))
    /\ UNCHANGED <<BACKGROUND_CACHE, MASTER_CACHE, req, loc, hist>>

\* The response has been sent.
FormFinish ==
    /\ pc = "done"
    /\ pc' = "idle"
    /\ req' = NoForm
    /\ loc' = NoFormLocals
    /\ obs' = NoFormObserved
    /\ resp' = NoResponse
    /\ UNCHANGED <<BACKGROUND_CACHE, MASTER_CACHE, hist>>

FormNext ==
    \/ FormV1Start
    \/ FormV2Start
    \/ FormStage1
    \/ FormV1Composite
    \/ FormStage2Composite
    \/ FormFallback
    \/ FormFinish

FormSpec == FormInit /\ [][FormNext]_vars

\* The orientation the handler of the current request works with.
FormOrientation == FormGet(req.orientation, "angled")

\* The composition section of the instruction block of the current request.
FormComposition == loc.parts.prompt.composition

\* C12: build_composition_instruction is total: flat_lay, standing and
\* angled select one template each, the three templates differ, and every
\* other orientation (the empty string and an absent field included) selects
\* the template of angled; the instruction block of every composite call
\* carries the template of the request's orientation.
C12_OrientationMappingTotal ==
    /\ Cardinality({FlatLayTemplate, StandingTemplate, AngledTemplate}) = 3
    /\ (pc \in {"form_v1", "form_s2", "form_fb"}) =>
           /\ FormOrientation = "flat_lay" => FormComposition = FlatLayTemplate
           /\ FormOrientation = "standing" => FormComposition = StandingTemplate
           /\ FormOrientation \notin {"flat_lay", "standing"} =>
                  FormComposition = AngledTemplate
    /\ \A o \in Orientations :
           LET orientation == FormGet(o, "angled") IN
           /\ orientation = "flat_lay" =>
                  build_composition_instruction(orientation) = FlatLayTemplate
           /\ orientation = "standing" =>
                  build_composition_instruction(orientation) = StandingTemplate
           /\ orientation \notin {"flat_lay", "standing"} =>
                  build_composition_instruction(orientation) = AngledTemplate

\* C12 witness: a flat_lay request whose composite call carried the flat-lay
\* template has been answered.
C12_Witness ==
    /\ pc = "done"
    /\ req.orientation = "flat_lay"
    /\ obs.calls # {}
    /\ obs.sent.prompt.composition = FlatLayTemplate

\* The stages that make generative calls.
FormStages == {"stage1", "stage2", "fallback", "v1"}

\* C13: every generative call of a generation request (Stage 1, Stage 2,
\* fallback, V1) is made with image_size 1K or 2K: the form's quality when
\* that is 1K or 2K, and 1K when the field is absent or has any other value.
C13_QualityClamped ==
    (req.endpoint \in {"v1", "v2"}) =>
        /\ \A call \in obs.calls :
               /\ call.stage \in FormStages
               /\ call.quality \in {"1K", "2K"}
               /\ req.quality \in {"1K", "2K"} => call.quality = req.quality
               /\ req.quality \notin {"1K", "2K"} => call.quality = "1K"
        /\ (pc \in {"form_v1", "form_s1", "form_s2", "form_fb"}) =>
               /\ loc.quality \in {"1K", "2K"}
               /\ req.quality \in {"1K", "2K"} => loc.quality = req.quality
               /\ req.quality \notin {"1K", "2K"} => loc.quality = "1K"

\* C13 witness: a V2 request asking for quality 4K has made a Stage-1 call
\* and a Stage-2 call, both with 1K, and has been answered.
C13_Witness ==
    /\ pc = "done"
    /\ req.endpoint = "v2"
    /\ req.quality = "4K"
    /\ obs.calls = {FormCall("stage1", "1K"), FormCall("stage2", "1K")}

\* C14: whatever the judge does (Spec), a generation request whose
\* generative calls succeed is answered 200 with an image, never 5xx.  (The
\* runs of generate_with_retry all returned an image, the last one from its
\* first call, and Stage 1 needed at most one call.)
C14_JudgeNeverFailsRequest ==
    (Answered /\ IsGeneration /\ req.image # NoImg
     /\ obs.judge_calls > 0 /\ obs.runs = obs.judge_calls
     /\ obs.run_calls = 1 /\ obs.stage1_calls <= 1 /\ ~loc.error) =>
        /\ resp.status = 200
        /\ resp.image = loc.generated

\* ------------------------------------- concurrent /pregenerate-background
\* ConcSpec: two /pregenerate-background requests for the same source
\* photograph handled by two threads of the server.  A thread can be
\* suspended wherever it waits for a model call; its steps are cut there.
\* The accesses to BACKGROUND_CACHE (the membership test and the read at the
\* start, the item assignment at the end) are single dict operations.
Threads == {1, 2}

\* The source photograph both requests upload.
ConcSource == Img("bg_upload", 1, 0)

\* The render the generative model returns to thread t in iteration
\* `attempt` of its render loop.
ConcRender(t, attempt) ==
    Img("pregen", ConcSource.of, (t - 1) * MAX_GENERATION_ATTEMPTS + attempt + 1)

\* An item assignment that keeps the entry a key already has.
CacheStore_keeps_first(cache, key, entry) ==
    [k \in DOMAIN cache \cup {key} |->
        IF k \in DOMAIN cache THEN cache[k] ELSE entry]

\* cache[key] = entry
CacheStore(cache, key, entry) ==
    [k \in DOMAIN cache \cup {key} |-> IF k = key THEN entry ELSE cache[k]]

\* The locals of one thread's handler: the loop variable of the render loop,
\* generated_bg / the image under verification, and the analysis.
ConcLocals(attempt, generated, analysis) ==
    [attempt |-> attempt, generated |-> generated, analysis |-> analysis]
NoConcLocals == ConcLocals(0, NoImg, NoAnalysis)

\* missed: the threads whose cache lookup missed
\* wrote: the threads that stored a render
\* last_written: the render stored by the latest item assignment
ConcObserved(missed, wrote, last_written) ==
    [missed |-> missed, wrote |-> wrote, last_written |-> last_written]

ConcInit ==
    /\ BACKGROUND_CACHE = << >>
    /\ MASTER_CACHE = << >>
    /\ pc = [t \in Threads |-> "idle"]
    /\ req = [t \in Threads |-> Current("pregen", ConcSource)]
    /\ loc = [t \in Threads |-> NoConcLocals]
    /\ obs = ConcObserved({}, {}, NoImg)
    /\ resp = [t \in Threads |-> NoResponse]
    /\ hist = History(NoImg, << >>, << >>)

\* Thread t returns `response`.
ConcReturn(t, response) ==
    /\ pc' = [pc EXCEPT ![t] = "done"]
    /\ resp' = [resp EXCEPT ![t] = response]

\* The handler up to the analysis call: the cache hit, or a miss.
ConcStart(t) ==
    /\ pc[t] = "idle"
    /\ LET bg_id == generate_cache_id(req[t].image, "bg_") IN
       IF bg_id \in DOMAIN BACKGROUND_CACHE
       THEN /\ ConcReturn(t, ImageResponse("Background retrieved from cache",
                                           BACKGROUND_CACHE[bg_id].image))
            /\ UNCHANGED obs
       ELSE /\ pc' = [pc EXCEPT ![t] = "pg_analysis"]
            /\ obs' = [obs EXCEPT !.missed = @ \cup {t}]
            /\ UNCHANGED resp
    /\ UNCHANGED <<BACKGROUND_CACHE, MASTER_CACHE, req, loc, hist>>

\* The analysis call and json.loads of its text.
ConcAnalyse(t) ==
    /\ pc[t] = "pg_analysis"
    /\ \E reply \in AnalysisReplies :
         LET text == clean_json_text(reply.text) IN
         IF reply.raises \/ JsonLoadsRaises(text)
         THEN /\ ConcReturn(t, ErrorResponse(500))
              /\ UNCHANGED loc
         ELSE /\ loc' = [loc EXCEPT
                    ![t].analysis = Analysis(~GetRaises(text))]
              /\ pc' = [pc EXCEPT ![t] = "pg_gen"]
              /\ UNCHANGED resp
    /\ UNCHANGED <<BACKGROUND_CACHE, MASTER_CACHE, req, obs, hist>>

\* The end of an iteration of the render loop without an accepted render.
ConcNextAttempt(t) ==
    IF loc[t].attempt + 1 < MAX_GENERATION_ATTEMPTS
    THEN /\ loc' = [loc EXCEPT ![t].attempt = @ + 1, ![t].generated = NoImg]
         /\ pc' = [pc EXCEPT ![t] = "pg_gen"]
         /\ UNCHANGED resp
    ELSE /\ ConcReturn(t, ErrorResponse(500))
         /\ loc' = [loc EXCEPT ![t].generated = NoImg]

\* One generative call of the render loop.
ConcGenerate(t) ==
    /\ pc[t] = "pg_gen"
    /\ \E outcome \in GenOutcomes :
         IF outcome = "image" /\ loc[t].analysis.is_dict
         THEN /\ loc' = [loc EXCEPT
                    ![t].generated = ConcRender(t, loc[t].attempt)]
              /\ pc' = [pc EXCEPT ![t] = "pg_verify"]
              /\ UNCHANGED resp
         ELSE ConcNextAttempt(t)
    /\ UNCHANGED <<BACKGROUND_CACHE, MASTER_CACHE, req, obs, hist>>

\* verify_background_reproduction in the render loop; on acceptance the
\* cache write and the response.
ConcVerify(t) ==
    /\ pc[t] = "pg_verify"
    /\ \E reply \in JudgeReplies :
         IF verify_background_reproduction(reply)
         THEN /\ BACKGROUND_CACHE' =
                     CacheStore(BACKGROUND_CACHE,
                                generate_cache_id(req[t].image, "bg_"),
                                BackgroundEntry(loc[t].generated,
                                                AnalysisDescription,
                                                AnalysisScale))
              /\ obs' = [obs EXCEPT !.wrote = @ \cup {t},
                                    !.last_written = loc[t].generated]
              /\ ConcReturn(t, ImageResponse(
                     "Background pre-generated successfully",
                     loc[t].generated))
              /\ UNCHANGED loc
         ELSE /\ ConcNextAttempt(t)
              /\ UNCHANGED <<BACKGROUND_CACHE, obs>>
    /\ UNCHANGED <<MASTER_CACHE, req, hist>>

ConcNext ==
    \E t \in Threads :
        \/ ConcStart(t)
        \/ ConcAnalyse(t)
        \/ ConcGenerate(t)
        \/ ConcVerify(t)

ConcSpec == ConcInit /\ [][ConcNext]_vars

\* Both requests have completed successfully.
BothSucceeded == \A t \in Threads : pc[t] = "done" /\ resp[t].status = 200

\* C15: whatever the interleaving of two /pregenerate-background requests
\* for the same source, once both have completed successfully
\* BACKGROUND_CACHE holds exactly one entry, filed under the fingerprint of
\* the source, whose image is the render written last, and each request
\* returned a render made for that source: its own, or the one it found in
\* the cache.
C15_ConcurrentPregenLastWriteWins ==
    BothSucceeded =>
        LET bg_id == generate_cache_id(ConcSource, "bg_") IN
        /\ DOMAIN BACKGROUND_CACHE = {bg_id}
        /\ obs.wrote # {}
        /\ BACKGROUND_CACHE[bg_id].image = obs.last_written
        /\ \E t \in obs.wrote : resp[t].image = obs.last_written
        /\ \A t \in Threads :
               /\ resp[t].image.src = "pregen"
               /\ resp[t].image.of = ConcSource.of
               /\ t \in obs.wrote => resp[t].image = loc[t].generated
               /\ t \notin obs.wrote =>
                      \E u \in obs.wrote : resp[t].image = resp[u].image

\* C15 witness: both requests missed the cache, both rendered and stored,
\* and the cache holds the render of the one that wrote last while the other
\* returned a different render.
C15_Witness ==
    /\ BothSucceeded
    /\ obs.missed = Threads
    /\ obs.wrote = Threads
    /\ resp[1].image # resp[2].image
    /\ BACKGROUND_CACHE[generate_cache_id(ConcSource, "bg_")].image
           = resp[1].image

\* ---------------------------------------------------------------- liveness
\* An external model call of the request being handled returns or raises,
\* and the handler runs on to its next call or to its response.
ModelCallReturns ==
    \/ V1Generate
    \/ V1Verify
    \/ V2Stage1Generate
    \/ V2Stage1Verify
    \/ V2Stage2Generate
    \/ V2Stage2Verify
    \/ FallbackGenerate
    \/ PregenAnalyse
    \/ PregenGenerate
    \/ PregenVerify
    \/ SaveMasterAnalyse

\* Spec under the assumption that no model call hangs.
LiveSpec == Spec /\ WF_vars(ModelCallReturns)

\* The calls a generation request may make: Stage-1 calls, runs of
\* generate_with_retry for a composite and calls per run (so at most
\* (MAX_VERIFICATION_RETRIES + 1) * MAX_GENERATION_ATTEMPTS composite calls
\* in all), and composite judge calls.
CallBounds ==
    IsGeneration =>
        /\ obs.stage1_calls <= MAX_GENERATION_ATTEMPTS
        /\ obs.runs <= MAX_VERIFICATION_RETRIES + 1
        /\ obs.run_calls <= MAX_GENERATION_ATTEMPTS
        /\ (obs.runs > 0 =>
               (obs.runs - 1) * MAX_GENERATION_ATTEMPTS + obs.run_calls
                   <= (MAX_VERIFICATION_RETRIES + 1) * MAX_GENERATION_ATTEMPTS)
        /\ obs.judge_calls <= MAX_VERIFICATION_RETRIES + 1
        /\ obs.judge_calls <= obs.runs
        /\ loc.s1_attempt < MAX_GENERATION_ATTEMPTS
        /\ loc.verify_attempt <= MAX_VERIFICATION_RETRIES
        /\ loc.attempt < MAX_GENERATION_ATTEMPTS

\* Within a request no loop variable goes back: the Stage-1 loop and the
\* verify loop only advance, and the loop of generate_with_retry starts at 0
\* again only in a new run, made by a later iteration of the verify loop or
\* by the stage that follows Stage 1.
LoopsOnlyAdvance ==
    (IsGeneration /\ pc' # "idle") =>
        /\ loc'.s1_attempt >= loc.s1_attempt
        /\ loc'.verify_attempt >= loc.verify_attempt
        /\ loc'.attempt < loc.attempt =>
               /\ loc'.attempt = 0
               /\ loc'.verify_attempt = loc.verify_attempt + 1
        /\ loc'.s1_attempt + loc'.verify_attempt + loc'.attempt
               > loc.s1_attempt + loc.verify_attempt + loc.attempt
           \/ pc' # pc

\* C16: every generation request is answered, provided each model call
\* returns or raises; it makes at most MAX_GENERATION_ATTEMPTS Stage-1
\* calls, at most (MAX_VERIFICATION_RETRIES + 1) * MAX_GENERATION_ATTEMPTS
\* composite calls and at most MAX_VERIFICATION_RETRIES + 1 composite judge
\* calls, and no loop restarts or resets its counter.
C16_RequestsTerminate ==
    /\ []CallBounds
    /\ [][LoopsOnlyAdvance]_vars
    /\ (IsGeneration ~> Answered)

\* C16 witness: a V2 request answered after three Stage-1 calls, three runs
\* of generate_with_retry, the last with three calls, and three judge calls.
C16_Witness ==
    /\ Answered
    /\ req.endpoint = "v2"
    /\ obs.stage1_calls = MAX_GENERATION_ATTEMPTS
    /\ obs.runs = MAX_VERIFICATION_RETRIES + 1
    /\ obs.run_calls = MAX_GENERATION_ATTEMPTS
    /\ obs.judge_calls = MAX_VERIFICATION_RETRIES + 1

\* The issues of a judge call listed verbatim, one piece per issue.
ListedVerbatim(issues) ==
    IssuesVal("joined",
              IF issues.kind = "str" THEN <<issues.items[1]>> ELSE issues.items)

\* The content parts of the first iteration of the verify loop the current
\* request is in.
OriginalParts ==
    IF pc = "v1_gen"
    THEN Parts(V1Images(loc.master_image),
               build_v1_prompt(loc.background_description,
                               loc.master_image # NoImg))
    ELSE Parts(Stage2Images(loc.master_image, loc.stage1_image),
               build_stage2_prompt(loc.master_image # NoImg))

\* C17: in a repair iteration of a verify loop (V1 or Stage 2) the
\* generation gets the image parts of the first iteration in the same order,
\* and its instruction block is the original one followed by a fix
\* directive that lists the issues of the most recent judge call verbatim,
\* and nothing of earlier calls.
C17_RepairKeepsImagesAddsLatestIssues ==
    (pc \in {"v1_gen", "v2_s2_gen"} /\ loc.verify_attempt > 0) =>
        /\ loc.parts.images = OriginalParts.images
        /\ loc.parts.prompt =
               [OriginalParts.prompt EXCEPT
                   !.fix = Fix(TRUE, ListedVerbatim(loc.issues))]
        /\ obs.run_calls > 0 /\ loc.attempt > 0 => obs.sent = loc.parts

\* What an image part shows.
ImageRole(image) ==
    IF image.src = "master_upload" THEN "STYLE REFERENCE"
    ELSE IF image.src \in {"pregen", "stage1"} THEN "BACKGROUND"
    ELSE IF image.src = "product" THEN "PRODUCT"
    ELSE IF image.src = "detail" THEN "DETAIL"
    ELSE "OTHER"

\* The legend of `parts` names one image per image part, and its k-th line
\* is "Image k" with the role of the k-th image part (for a detail: with the
\* label of that detail).
LegendMatches(parts) ==
    /\ Len(parts.prompt.roles) = Len(parts.images)
    /\ \A k \in 1..Len(parts.images) :
           /\ parts.prompt.roles[k].index = k
           /\ parts.prompt.roles[k].role = ImageRole(parts.images[k])
           /\ parts.prompt.roles[k].label =
                  IF parts.images[k].src = "detail"
                  THEN DetailLabel(parts.images[k].of, req.labels)
                  ELSE NoLabel

\* master, background, product, details: the order of the image parts of a
\* composite call of the current request.
ExpectedImages ==
    (IF loc.master_image # NoImg THEN <<loc.master_image>> ELSE <<>>)
        \o (IF pc = "form_s2" THEN <<loc.stage1_image>> ELSE <<>>)
        \o <<ProductBytes>>
        \o detail_images(req.details)

\* C18: for every combination of style master, background image and 0 to 3
\* detail images, the image parts of a composite call (V1, Stage 2, V2
\* fallback) are ordered master, background, product, details, and the
\* legend of its instruction block names as many images as are sent with
\* "Image k" given the role of the k-th part.
C18_LegendMatchesImageOrder ==
    /\ (pc \in {"form_v1", "form_s2", "form_fb"}) =>
           /\ loc.parts.images = ExpectedImages
           /\ LegendMatches(loc.parts)
    /\ obs.sent # NoParts => LegendMatches(obs.sent)

\* C18 witness: a Stage-2 call was made with a style master, a background
\* and three detail images, six image parts in all.
C18_Witness ==
    /\ pc = "done"
    /\ req.details = {1, 2, 3}
    /\ obs.sent # NoParts
    /\ Len(obs.sent.images) = 6
    /\ obs.sent.prompt.builder = "stage2"
    /\ obs.sent.prompt.fix

\* The current V2 request is in Stage 2 or was answered from it.
InStage2 == req.endpoint = "v2" /\ loc.parts.prompt.builder = "stage2"

\* C19: the background image part of every Stage-2 call is the stored image
\* of the BACKGROUND_CACHE entry named by backgroundId, or the output of a
\* Stage-1 generation of this request that verify_background_reproduction
\* accepted; never the bytes of an uploaded background file.
C19_Stage2BackgroundIsRenderOrCached ==
    InStage2 =>
        LET background == Stage2BackgroundPart(loc.parts, loc.master_image) IN
        /\ background = loc.stage1_image
        /\ background.src \notin {"bg_upload", "ios_cached", "none"}
        /\ \/ /\ loc.background_id # NoId
              /\ background = BACKGROUND_CACHE[loc.background_id].image
              /\ obs.stage1_calls = 0
           \/ /\ loc.background_id = NoId
              /\ background.src = "stage1"
              /\ background = obs.bg_accepted
              /\ obs.stage1_calls > 0
        /\ obs.run_calls > 0 =>
               /\ obs.sent.prompt.builder = "stage2"
               /\ Stage2BackgroundPart(obs.sent, loc.master_image) = background

\* C19 witness: a V2 request with an uploaded background whose second
\* Stage-1 output was accepted has made its Stage-2 call with that output
\* and has been answered.
C19_Witness ==
    /\ Answered
    /\ InStage2
    /\ loc.background_image.src = "bg_upload"
    /\ obs.run_calls > 0
    /\ Stage2BackgroundPart(obs.sent, loc.master_image) = Img("stage1", 1, 2)

\* This step of the current request makes a composite generative call.
CompositeCallStep ==
    /\ IsGeneration
    /\ pc' # "idle"
    /\ obs'.runs # obs.runs \/ obs'.run_calls # obs.run_calls

\* This step of the current request makes a Stage-1 generative call.
Stage1CallStep ==
    /\ req.endpoint = "v2"
    /\ pc' # "idle"
    /\ obs'.stage1_calls = obs.stage1_calls + 1

\* This step of the current request makes a composite judge call.
JudgeCallStep ==
    /\ IsGeneration
    /\ pc' # "idle"
    /\ obs'.judge_calls = obs.judge_calls + 1

\* Stage 1 of the current V2 request has ended: it was skipped for a cached
\* background, or it produced an accepted background.
Stage1EndedForStage2 ==
    \/ /\ loc.cached_background # NoImg
       /\ loc.stage1_image = loc.cached_background
       /\ obs.stage1_calls = 0
    \/ /\ Stage1Succeeded
       /\ loc.stage1_image = obs.bg_accepted
       /\ obs.stage1_calls > 0

\* Stage 1 of the current V2 request has ended: there was no background to
\* synthesise, or all its attempts failed.
Stage1EndedForFallback ==
    \/ loc.background_image = NoImg /\ obs.stage1_calls = 0
    \/ /\ loc.background_image # NoImg
       /\ obs.stage1_calls = MAX_GENERATION_ATTEMPTS
       /\ obs.bg_accepted = NoImg

\* The stages of one request are strictly ordered.
StagesInOrder ==
    /\ (CompositeCallStep /\ req.endpoint = "v2") =>
           /\ pc \in {"v2_s2_gen", "fb_gen"}
           /\ pc = "v2_s2_gen" => Stage1EndedForStage2
           /\ pc = "fb_gen" => Stage1EndedForFallback
    /\ Stage1CallStep => (obs.runs = 0 /\ obs.judge_calls = 0)
    /\ CompositeCallStep => (~loc.passed /\ obs.judge_calls = loc.verify_attempt)
    /\ JudgeCallStep =>
           /\ pc \in {"v1_verify", "v2_s2_verify"}
           /\ ~loc.error
           /\ loc.generated = Composite(loc.verify_attempt)
           /\ obs.runs = loc.verify_attempt + 1
           /\ obs.judge_calls = loc.verify_attempt
           /\ obs'.judged = obs.judged \cup {<<ProductBytes, loc.generated>>}
           /\ <<ProductBytes, loc.generated>> \notin obs.judged
    /\ (IsGeneration /\ loc.passed) => (Answered /\ pc' = "idle")

\* C20: within one request no Stage-2 call is made before Stage 1 has ended
\* (skipped, succeeded or exhausted), no composite judge call before the
\* generation of the same iteration returned an image, every judge call
\* judges the image of the generation just before it, and nothing is
\* generated after a judge call that passed.
C20_StagesStrictlyOrdered == [][StagesInOrder]_vars

\* C20 witness: a V2 request went through Stage 1, a rejected Stage-2
\* composite and a second one that the judge passed.
C20_Witness ==
    /\ Answered
    /\ req.endpoint = "v2"
    /\ obs.stage1_calls > 0
    /\ obs.judge_calls = 2
    /\ loc.passed
    /\ resp.image = Composite(1)

\* A composite generation of the current request has returned an image, and
\* every rejection of the judge so far listed its issues as strings.
CompositeReturnedImage ==
    /\ IsGeneration
    /\ obs.judge_calls > 0 \/ loc.generated # NoImg
    /\ ~JoinRaises(loc.issues)

\* C21: once a composite generation of a request has returned an image, the
\* request ends with HTTP 200 carrying a generated composite image, whatever
\* the judge answers and whatever the regenerations do.
C21_RejectionNeverBlocksDelivery ==
    (Answered /\ CompositeReturnedImage) =>
        /\ resp.status = 200
        /\ resp.image.src = "composite"

\* Every entry BACKGROUND_CACHE holds is still there after the step, with
\* the same image, description and scale, unless the step is a /clear-cache.
EntriesKept ==
    \A k \in DOMAIN BACKGROUND_CACHE :
        \/ /\ k \in DOMAIN BACKGROUND_CACHE'
           /\ BACKGROUND_CACHE'[k] = BACKGROUND_CACHE[k]
        \/ /\ req'.endpoint = "clear_cache"
           /\ BACKGROUND_CACHE' = << >>

\* C22: with requests handled one at a time, no request changes the image,
\* description or scale of an entry BACKGROUND_CACHE holds; the entry stays
\* as first written until a /clear-cache removes it.
C22_BackgroundEntriesWriteOnce == [][EntriesKept]_vars

\* C22 witness: a /pregenerate-background request for a photograph whose
\* fingerprint is cached has been answered from the cache, the entry being
\* the render of a second attempt, and the cache is as it was before.
C22_Witness ==
    /\ Answered
    /\ req.endpoint = "pregen"
    /\ resp.message = "Background retrieved from cache"
    /\ resp.image.n = 2
    /\ BACKGROUND_CACHE # << >>
    /\ BACKGROUND_CACHE = hist.bg_before

\* The key of every BACKGROUND_CACHE entry is "bg_" followed by the digest of
\* the bytes of the photograph the entry was rendered for.
KeyOfBytesAlone ==
    \A k \in DOMAIN BACKGROUND_CACHE :
        /\ k.prefix = "bg_"
        /\ k.digest =
               Md5Hex12(Img("bg_upload", BACKGROUND_CACHE[k].image.of, 0))

\* The entries that `cache` holds for renders of the photograph `source`.
RendersOf(cache, source) ==
    { k \in DOMAIN cache : cache[k].image.of = source.of }

\* A /pregenerate-background request for a photograph that had a render in
\* the cache when the request arrived.
PregenForCached ==
    /\ req.endpoint = "pregen"
    /\ req.image # NoImg
    /\ RendersOf(hist.bg_before, req.image) # {}

\* This step is the cache write of a successful render.
RenderStored ==
    /\ req'.endpoint = "pregen"
    /\ BACKGROUND_CACHE' # BACKGROUND_CACHE

\* C23: the cache key of /pregenerate-background is a function of the
\* uploaded bytes alone; a request whose key is in BACKGROUND_CACHE makes no
\* analysis, generative or judge call and returns the stored image from the
\* cache; so, with requests handled one at a time and until a /clear-cache,
\* a photograph is rendered successfully at most once.
C23_OneRenderPerSource ==
    /\ [](KeyOfBytesAlone
          /\ (\A b \in BgUploads :
                  Cardinality(RendersOf(BACKGROUND_CACHE, b)) <= 1)
          /\ (PregenForCached =>
                 /\ Answered
                 /\ loc = NoLocals
                 /\ obs = NoObserved
                 /\ BACKGROUND_CACHE = hist.bg_before
                 /\ resp.status = 200
                 /\ resp.message = "Background retrieved from cache"
                 /\ \E k \in RendersOf(hist.bg_before, req.image) :
                        resp.image = hist.bg_before[k].image))
    /\ [][RenderStored =>
              /\ pc = "pg_verify"
              /\ RendersOf(BACKGROUND_CACHE, loc.background_image) = {}
              /\ RendersOf(BACKGROUND_CACHE', loc.background_image) # {}]_vars

\* C23 witness: a photograph was rendered and stored, and a further
\* /pregenerate-background request with the same bytes was answered from the
\* cache without any model call.
C23_Witness ==
    /\ Answered
    /\ PregenForCached
    /\ resp.message = "Background retrieved from cache"
    /\ obs = NoObserved
    /\ loc = NoLocals

\* The detail images among the image parts, and the DETAIL lines of the
\* legend, in the order they are sent.
DetailParts(parts) == SelectSeq(parts.images, LAMBDA image : image.src = "detail")
DetailLines(parts) == SelectSeq(parts.prompt.roles, LAMBDA r : r.role = "DETAIL")

\* The detail images and labels of `parts` are those of the current request:
\* one image and one label per detail file present, in increasing index
\* order, each label the form's label for the index of its image, or the
\* default of that index.
DetailsCollected(parts) ==
    LET images == DetailParts(parts)
        lines == DetailLines(parts) IN
    /\ Len(images) = Len(lines)
    /\ Len(images) = Cardinality(req.details)
    /\ Len(images) <= 3
    /\ \A k \in 1..Len(images) :
           /\ images[k].of \in req.details
           /\ images[k] = DetailBytes(images[k].of)
           /\ lines[k].label = Label(images[k].of, images[k].of \in req.labels)
           /\ \A j \in 1..Len(images) : j < k => images[j].of < images[k].of

\* C24: for every subset of the detail1..detail3 files of a generation
\* request, gaps included, the request is not rejected, there are as many
\* detail images as detail labels and at most 3, both in increasing index
\* order, and each label is the one supplied for its image's index or the
\* default for that index.
C24_DetailImagesCollected ==
    (req.endpoint \in {"v1", "v2"} /\ req.image # NoImg) =>
        /\ resp.status # 400
        /\ (pc \in {"form_v1", "form_s2", "form_fb"}) =>
               DetailsCollected(loc.parts)
        /\ obs.sent # NoParts => DetailsCollected(obs.sent)

\* C24 witness: a request with detail2 and detail3 but no detail1, a label
\* supplied for detail1 and detail3 only, has made its composite call with
\* two detail images and has been answered 200.
C24_Witness ==
    /\ pc = "done"
    /\ req.details = {2, 3}
    /\ req.labels = {1, 3}
    /\ resp.status = 200
    /\ obs.sent # NoParts
    /\ DetailParts(obs.sent) = <<DetailBytes(2), DetailBytes(3)>>
    /\ DetailLines(obs.sent)[1].label = Label(2, FALSE)
    /\ DetailLines(obs.sent)[2].label = Label(3, TRUE)

\* ----------------------------- generation against /delete-master, /clear-cache
\* RaceSpec: the server (Flask's threaded development server, app.run) runs
\* the handler of a generation request in one thread while another thread
\* handles /delete-master and /clear-cache requests.  A thread can be
\* suspended between any two operations on a cache: the membership test
\* "key in CACHE" and the subscript "CACHE[key]" of the generation handlers
\* are separate steps, as are the two assignments of clear_cache.  What the
\* handlers do after their lookups touches no cache and is one step.
RaceThreads == {"gen", "admin"}

\* The locals of the generation handler (cached_background,
\* background_image, master_image) and of clear_cache (cache_type).
RaceLocals(cached_background, background_image, master_image, cache_type) ==
    [cached_background |-> cached_background,
     background_image |-> background_image, master_image |-> master_image,
     cache_type |-> cache_type]
NoRaceLocals == RaceLocals(NoImg, NoImg, NoImg, "")

\* bg_found, master_found: the membership test of the current generation
\* request succeeded; raised: a subscript of it raised KeyError.
RaceObserved(bg_found, master_found, raised) ==
    [bg_found |-> bg_found, master_found |-> master_found, raised |-> raised]
NoRaceObserved == RaceObserved(FALSE, FALSE, FALSE)

NoV2Request == Request("none", NoImg, NoId, NoImg, NoImg, "", NoId, NoImg)

\* A master saved by an earlier /save-master: another image than the one
\* requests upload as 'masterImage'.
SavedMaster == Img("master_saved", 1, 0)
SavedMasterId == generate_cache_id(SavedMaster, "master_")

\* BACKGROUND_CACHE holds the render of the first background upload, or
\* nothing; MASTER_CACHE holds the saved master, or nothing.
RaceBackgrounds ==
    { << >>,
      generate_cache_id(Img("bg_upload", 1, 0), "bg_") :>
          BackgroundEntry(Img("pregen", 1, 1), AnalysisDescription,
                          AnalysisScale) }
RaceMasters ==
    { << >>, SavedMasterId :> MasterEntry(SavedMaster, AnalysisStyle) }

\* The generation requests: with or without a backgroundId / masterId and
\* with or without the files that can stand for them.  (The V1 handler reads
\* no background field.)
RaceRequests ==
    { Request("v1", i, NoId, NoImg, NoImg, "", m, mi) :
        i \in {NoImg, ProductBytes},
        m \in {NoId, SavedMasterId}, mi \in {NoImg} \cup MasterUploads }
    \cup
    { Request("v2", i, b, bi, cb, "", m, mi) :
        i \in {NoImg, ProductBytes}, b \in {NoId} \cup BgIds,
        bi \in {NoImg} \cup BgUploads, cb \in {NoImg, IosBackground},
        m \in {NoId, SavedMasterId}, mi \in {NoImg} \cup MasterUploads }

RaceInit ==
    /\ BACKGROUND_CACHE \in RaceBackgrounds
    /\ MASTER_CACHE \in RaceMasters
    /\ pc = [t \in RaceThreads |-> "idle"]
    /\ req = NoV2Request
    /\ loc = NoRaceLocals
    /\ obs = NoRaceObserved
    /\ resp = [t \in RaceThreads |-> NoResponse]
    /\ hist = History(NoImg, BACKGROUND_CACHE, MASTER_CACHE)

\* Thread t returns `response`.
RaceReturn(t, response) ==
    /\ pc' = [pc EXCEPT ![t] = "done"]
    /\ resp' = [resp EXCEPT ![t] = response]

\* A generation request arrives; the handler up to its first cache access.
RaceArrive ==
    /\ pc["gen"] = "idle"
    /\ \E request \in RaceRequests :
         /\ req' = request
         /\ hist' = History(NoImg, BACKGROUND_CACHE, MASTER_CACHE)
         /\ IF MissingImage(request)
            THEN RaceReturn("gen", ErrorResponse(400))
            ELSE /\ pc' = [pc EXCEPT !["gen"] =
                              IF request.endpoint = "v2" THEN "bg_test"
                              ELSE "master_test"]
                 /\ UNCHANGED resp
    /\ UNCHANGED <<BACKGROUND_CACHE, MASTER_CACHE, loc, obs>>

\* A handler that prefers the 'cachedBackground' file.
UploadedBackground_prefers_ios(request) ==
    IF request.cachedBackground # NoImg THEN request.cachedBackground
    ELSE request.backgroundImage

\* background_image when no cached background is used: the
\* 'backgroundImage' file, else the 'cachedBackground' file, else None.
UploadedBackground(request) ==
    IF request.backgroundImage # NoImg THEN request.backgroundImage
    ELSE request.cachedBackground

\* "if background_id and background_id in BACKGROUND_CACHE:"
RaceBackgroundTest ==
    /\ pc["gen"] = "bg_test"
    /\ IF req.backgroundId # NoId /\ req.backgroundId \in DOMAIN BACKGROUND_CACHE
       THEN /\ pc' = [pc EXCEPT !["gen"] = "bg_read"]
            /\ obs' = [obs EXCEPT !.bg_found = TRUE]
            /\ UNCHANGED loc
       ELSE /\ pc' = [pc EXCEPT !["gen"] = "master_test"]
            /\ loc' = [loc EXCEPT !.background_image = UploadedBackground(req)]
            /\ UNCHANGED obs
    /\ UNCHANGED <<BACKGROUND_CACHE, MASTER_CACHE, req, resp, hist>>

\* "cached_data = BACKGROUND_CACHE[background_id]" and the reads of
\* cached_data; KeyError when the key is gone (the statement is outside the
\* handler's try: the server answers 500).
RaceBackgroundRead ==
    /\ pc["gen"] = "bg_read"
    /\ IF req.backgroundId \in DOMAIN BACKGROUND_CACHE
       THEN /\ loc' = [loc EXCEPT
                  !.cached_background =
                      BACKGROUND_CACHE[req.backgroundId].image,
                  !.background_image =
                      BACKGROUND_CACHE[req.backgroundId].image]
            /\ pc' = [pc EXCEPT !["gen"] = "master_test"]
            /\ UNCHANGED <<obs, resp>>
       ELSE /\ RaceReturn("gen", ErrorResponse(500))
            /\ obs' = [obs EXCEPT !.raised = TRUE]
            /\ UNCHANGED loc
    /\ UNCHANGED <<BACKGROUND_CACHE, MASTER_CACHE, req, hist>>

\* "if master_id and master_id in MASTER_CACHE:"; without a hit the
\* 'masterImage' file is read.
RaceMasterTest ==
    /\ pc["gen"] = "master_test"
    /\ IF req.masterId # NoId /\ req.masterId \in DOMAIN MASTER_CACHE
       THEN /\ pc' = [pc EXCEPT !["gen"] = "master_read"]
            /\ obs' = [obs EXCEPT !.master_found = TRUE]
            /\ UNCHANGED loc
       ELSE /\ pc' = [pc EXCEPT !["gen"] = "stages"]
            /\ loc' = [loc EXCEPT !.master_image = req.masterImage]
            /\ UNCHANGED obs
    /\ UNCHANGED <<BACKGROUND_CACHE, MASTER_CACHE, req, resp, hist>>

\* "master_data = MASTER_CACHE[master_id]" and the reads of master_data;
\* KeyError when the key is gone.
RaceMasterRead ==
    /\ pc["gen"] = "master_read"
    /\ IF req.masterId \in DOMAIN MASTER_CACHE
       THEN /\ loc' = [loc EXCEPT
                  !.master_image = MASTER_CACHE[req.masterId].image]
            /\ pc' = [pc EXCEPT !["gen"] = "stages"]
            /\ UNCHANGED <<obs, resp>>
       ELSE /\ RaceReturn("gen", ErrorResponse(500))
            /\ obs' = [obs EXCEPT !.raised = TRUE]
            /\ UNCHANGED loc
    /\ UNCHANGED <<BACKGROUND_CACHE, MASTER_CACHE, req, hist>>

\* The stages of the pipeline on the images looked up: they end with an
\* image or with an error of their own.
RaceStages ==
    /\ pc["gen"] = "stages"
    /\ \E ok \in BOOLEAN :
         IF ok THEN RaceReturn("gen", ImageResponse("Success", Composite(0)))
         ELSE RaceReturn("gen", ErrorResponse(500))
    /\ UNCHANGED <<BACKGROUND_CACHE, MASTER_CACHE, req, loc, obs, hist>>

\* The response of the generation request has been sent.
RaceFinish ==
    /\ pc["gen"] = "done"
    /\ pc' = [pc EXCEPT !["gen"] = "idle"]
    /\ req' = NoV2Request
    /\ loc' = [NoRaceLocals EXCEPT !.cache_type = loc.cache_type]
    /\ obs' = NoRaceObserved
    /\ resp' = [resp EXCEPT !["gen"] = NoResponse]
    /\ UNCHANGED <<BACKGROUND_CACHE, MASTER_CACHE, hist>>

\* DELETE /delete-master/<master_id>
RaceDeleteMaster ==
    /\ pc["admin"] = "idle"
    /\ \E master_id \in {SavedMasterId} :
         IF master_id \in DOMAIN MASTER_CACHE
         THEN /\ MASTER_CACHE' =
                     [k \in DOMAIN MASTER_CACHE \ {master_id} |->
                         MASTER_CACHE[k]]
              /\ resp' = [resp EXCEPT !["admin"] =
                     Response(200, "Master deleted", NoImg, FALSE, EmptyList)]
         ELSE /\ resp' = [resp EXCEPT !["admin"] = ErrorResponse(404)]
              /\ UNCHANGED MASTER_CACHE
    /\ UNCHANGED <<BACKGROUND_CACHE, pc, req, loc, obs, hist>>

\* POST /clear-cache up to and with "BACKGROUND_CACHE = {}".
RaceClearBackgrounds ==
    /\ pc["admin"] = "idle"
    /\ \E cache_type \in CacheTypes :
         /\ loc' = [loc EXCEPT !.cache_type = cache_type]
         /\ BACKGROUND_CACHE' =
                IF ClearsBackgrounds(cache_type)
                THEN << >> ELSE BACKGROUND_CACHE
    /\ pc' = [pc EXCEPT !["admin"] = "clear_masters"]
    /\ UNCHANGED <<MASTER_CACHE, req, obs, resp, hist>>

\* POST /clear-cache from "MASTER_CACHE = {}" to its response.
RaceClearMasters ==
    /\ pc["admin"] = "clear_masters"
    /\ MASTER_CACHE' =
           IF ClearsMasters(loc.cache_type) THEN << >> ELSE MASTER_CACHE
    /\ pc' = [pc EXCEPT !["admin"] = "idle"]
    /\ resp' = [resp EXCEPT !["admin"] =
           Response(200, "Cleared cache", NoImg, FALSE, EmptyList)]
    /\ UNCHANGED <<BACKGROUND_CACHE, req, loc, obs, hist>>

RaceNext ==
    \/ RaceArrive
    \/ RaceBackgroundTest
    \/ RaceBackgroundRead
    \/ RaceMasterTest
    \/ RaceMasterRead
    \/ RaceStages
    \/ RaceFinish
    \/ RaceDeleteMaster
    \/ RaceClearBackgrounds
    \/ RaceClearMasters

RaceSpec == RaceInit /\ [][RaceNext]_vars

\* C25: a generation request that names a masterId or backgroundId never
\* fails because /delete-master or /clear-cache runs concurrently: no
\* lookup raises after its presence test succeeded, and the handler goes on
\* with the complete entry it found or as if there were none.
C25_LookupSurvivesConcurrentRemoval ==
    /\ ~obs.raised
    /\ (pc["gen"] = "stages") =>
           /\ loc.cached_background # NoImg =>
                  /\ obs.bg_found
                  /\ loc.cached_background =
                         hist.bg_before[req.backgroundId].image
           /\ loc.cached_background = NoImg =>
                  loc.background_image = UploadedBackground(req)
           /\ obs.master_found =>
                  loc.master_image = hist.master_before[req.masterId].image
           /\ ~obs.master_found => loc.master_image = req.masterImage

\* The current request is a /pregenerate-background request with an image
\* whose fingerprint was not in the cache when it arrived.
PregenMiss ==
    /\ req.endpoint = "pregen"
    /\ req.image # NoImg
    /\ generate_cache_id(req.image, "bg_") \notin DOMAIN hist.bg_before

\* C26: a /pregenerate-background request that does not end in success (the
\* analysis call or the parse of its answer raises, or all
\* MAX_GENERATION_ATTEMPTS attempts fail to produce an accepted image) is
\* answered 500 and leaves BACKGROUND_CACHE as it was; an entry is written
\* only on the success path, and then the response is 200 with the render
\* just made (cached false).
C26_PregenFailureLeavesCache ==
    PregenMiss =>
        LET bg_id == generate_cache_id(req.image, "bg_") IN
        /\ ~Answered => BACKGROUND_CACHE = hist.bg_before
        /\ Answered => resp.status \in {200, 500}
        /\ (Answered /\ resp.status = 500) =>
               /\ BACKGROUND_CACHE = hist.bg_before
               /\ loc.generated = NoImg
               /\ obs.stage1_calls \in {0, MAX_GENERATION_ATTEMPTS}
        /\ (Answered /\ resp.status = 200) =>
               /\ resp = ImageResponse("Background pre-generated successfully",
                                       loc.generated)
               /\ loc.generated.src = "pregen"
               /\ loc.analysis.is_dict
               /\ DOMAIN BACKGROUND_CACHE = DOMAIN hist.bg_before \cup {bg_id}
               /\ BACKGROUND_CACHE[bg_id].image = loc.generated
               /\ \A k \in DOMAIN hist.bg_before :
                      BACKGROUND_CACHE[k] = hist.bg_before[k]
        /\ BACKGROUND_CACHE # hist.bg_before =>
               (Answered /\ resp.status = 200)

\* C26 witness: a /pregenerate-background request was answered 500 after
\* three failed attempts, the caches being as they were.
C26_Witness ==
    /\ Answered
    /\ PregenMiss
    /\ resp.status = 500
    /\ obs.stage1_calls = MAX_GENERATION_ATTEMPTS
    /\ loc.analysis.is_dict
    /\ BACKGROUND_CACHE = hist.bg_before
    /\ MASTER_CACHE # << >>

\* The images of the pairs handed to the background judge so far.
JudgedImages == { p[2] : p \in obs.judged }

\* The renders the caches and the response of the current request hold.
StoredOrReturned ==
    { BACKGROUND_CACHE[k].image : k \in DOMAIN BACKGROUND_CACHE }
        \cup {resp.image}

OutcomeSeqs == [1..MAX_GENERATION_ATTEMPTS -> GenOutcomes]
\* max_attempts: 1 in Stage 1, MAX_GENERATION_ATTEMPTS by default.
MaxAttemptsValues == 1..MAX_GENERATION_ATTEMPTS

\* The arguments of the call under test.
RetryCall(outcomes, max_attempts) ==
    [outcomes |-> outcomes, max_attempts |-> max_attempts]
NoRetryCall == RetryCall(<<>>, 0)

\* The inline image data of the response to invocation k.
RetryImage(k) == Img("composite", 0, k)

\* attempt: the loop variable; image, error: the pair returned.
RetryLocals(attempt, image, error) ==
    [attempt |-> attempt, image |-> image, error |-> error]
NoRetryLocals == RetryLocals(0, NoImg, FALSE)

RetryInit ==
    /\ BACKGROUND_CACHE = << >>
    /\ MASTER_CACHE = << >>
    /\ pc = "idle"
    /\ req = NoRetryCall
    /\ loc = NoRetryLocals
    /\ obs = 0
    /\ resp = NoResponse
    /\ hist = History(NoImg, << >>, << >>)

\* generate_with_retry is called.
RetryStart ==
    /\ pc = "idle"
    /\ \E outcomes \in OutcomeSeqs, max_attempts \in MaxAttemptsValues :
         req' = RetryCall(outcomes, max_attempts)
    /\ pc' = "retry_loop"
    /\ loc' = NoRetryLocals
    /\ obs' = 0
    /\ UNCHANGED <<BACKGROUND_CACHE, MASTER_CACHE, resp, hist>>

\* One iteration of the loop: invocation attempt + 1 of the model.
RetryIteration ==
    /\ pc = "retry_loop"
    /\ LET k == loc.attempt + 1
           r == generate_with_retry(loc.attempt, req.max_attempts,
                                    req.outcomes[k], RetryImage(k)) IN
       /\ obs' = obs + 1
       /\ IF r.returned
          THEN /\ loc' = RetryLocals(r.attempt, r.image, r.error)
               /\ pc' = "returned"
          ELSE /\ loc' = [loc EXCEPT !.attempt = r.attempt]
               /\ UNCHANGED pc
    /\ UNCHANGED <<BACKGROUND_CACHE, MASTER_CACHE, req, resp, hist>>

\* The caller has taken the result.
RetryFinish ==
    /\ pc = "returned"
    /\ pc' = "idle"
    /\ req' = NoRetryCall
    /\ loc' = NoRetryLocals
    /\ obs' = 0
    /\ UNCHANGED <<BACKGROUND_CACHE, MASTER_CACHE, resp, hist>>

RetryNext ==
    \/ RetryStart
    \/ RetryIteration
    \/ RetryFinish

RetrySpec == RetryInit /\ [][RetryNext]_vars

\* The invocations among the first max_attempts whose response holds an
\* image.
Successes ==
    { k \in 1..req.max_attempts : req.outcomes[k] = "image" }

\* The first of them.
FirstSuccess == CHOOSE k \in Successes : \A j \in Successes : k <= j

\* C28: generate_with_retry stops at the first success: if invocation k
\* (1 <= k <= max_attempts) is the first that returns an image, the model is
\* invoked exactly k times and the result is that image with no error; and
\* every result has exactly one of image and error set.
C28_RetryStopsAtFirstSuccess ==
    /\ (pc = "retry_loop") =>
           /\ obs = loc.attempt
           /\ obs < req.max_attempts
           /\ \A k \in 1..obs : req.outcomes[k] # "image"
    /\ (pc = "returned") =>
           /\ (loc.image # NoImg) # loc.error
           /\ Successes # {} =>
                  /\ obs = FirstSuccess
                  /\ loc.image = RetryImage(FirstSuccess)
                  /\ ~loc.error
           /\ Successes = {} =>
                  /\ obs = req.max_attempts
                  /\ loc.image = NoImg
                  /\ loc.error

\* C28 witness: the first invocation raised, the second answered without an
\* image, the third returned an image, which is the result.
C28_Witness ==
    /\ pc = "returned"
    /\ req.max_attempts = 3
    /\ req.outcomes = <<"raise", "noimage", "image">>
    /\ obs = 3
    /\ loc.image = RetryImage(3)

\* ------------------------------------------------ lookups, one at a time
\* LookupSpec: the steps of RaceSpec with requests handled one at a time: a
\* generation request arrives while no /clear-cache is under way, and
\* /delete-master and /clear-cache arrive while no generation request is
\* being handled.
LookupArrive == pc["admin"] = "idle" /\ RaceArrive
LookupDeleteMaster == pc["gen"] = "idle" /\ RaceDeleteMaster
LookupClearCache == pc["gen"] = "idle" /\ RaceClearBackgrounds

LookupNext ==
    \/ LookupArrive
    \/ RaceBackgroundTest
    \/ RaceBackgroundRead
    \/ RaceMasterTest
    \/ RaceMasterRead
    \/ RaceStages
    \/ RaceFinish
    \/ LookupDeleteMaster
    \/ LookupClearCache
    \/ RaceClearMasters

LookupSpec == RaceInit /\ [][LookupNext]_vars

\* The request's masterId / backgroundId names an entry of the cache.
MasterKnown == req.masterId # NoId /\ req.masterId \in DOMAIN MASTER_CACHE
BackgroundKnown ==
    req.backgroundId # NoId /\ req.backgroundId \in DOMAIN BACKGROUND_CACHE

\* What the V2 handler does with the background it resolved: without one
\* it generates from the text description (generate_v1_internal), with a
\* cached one it skips Stage 1, else it runs Stage 1 on the upload.
Route ==
    IF loc.background_image = NoImg THEN "text_only"
    ELSE IF SkipsStage1(loc.cached_background) THEN "stage2"
    ELSE "stage1"

\* C29: source precedence in the generation endpoints.  A masterId found in
\* MASTER_CACHE is used and an uploaded masterImage is then ignored; the
\* upload is used only when the id is absent or unknown.  A backgroundId
\* found in BACKGROUND_CACHE wins over an uploaded backgroundImage, which
\* wins over an uploaded cachedBackground; an unknown backgroundId without
\* an uploaded background file leads to text-only generation, not to an
\* error.
C29_SourcePrecedence ==
    /\ ~obs.raised
    /\ (pc["gen"] \in {"bg_test", "bg_read", "master_test", "master_read",
                       "stages"}) => req.image # NoImg
    /\ (pc["gen"] = "stages") =>
           /\ MasterKnown =>
                  loc.master_image = MASTER_CACHE[req.masterId].image
           /\ ~MasterKnown => loc.master_image = req.masterImage
    /\ (pc["gen"] = "stages" /\ req.endpoint = "v2") =>
           /\ BackgroundKnown =>
                  /\ loc.cached_background =
                         BACKGROUND_CACHE[req.backgroundId].image
                  /\ loc.background_image = loc.cached_background
                  /\ Route = "stage2"
           /\ (~BackgroundKnown /\ req.backgroundImage # NoImg) =>
                  /\ loc.background_image = req.backgroundImage
                  /\ Route = "stage1"
           /\ (~BackgroundKnown /\ req.backgroundImage = NoImg) =>
                  loc.background_image = req.cachedBackground
           /\ (~BackgroundKnown /\ req.backgroundImage = NoImg
               /\ req.cachedBackground = NoImg) => Route = "text_only"

\* C29 witness: a V2 request names a cached background and the saved master
\* and also uploads a backgroundImage, a cachedBackground and a masterImage;
\* the handler goes on with the two cache entries.
C29_Witness ==
    /\ pc["gen"] = "stages"
    /\ req.endpoint = "v2"
    /\ BackgroundKnown
    /\ MasterKnown
    /\ req.backgroundImage # NoImg
    /\ req.cachedBackground # NoImg
    /\ req.masterImage # NoImg
    /\ loc.master_image = SavedMaster
    /\ loc.background_image.src = "pregen"

\* The current request is a /clear-cache request whose type is cache_type
\* (the response names the type), and it has been answered.
Cleared(cache_type) ==
    /\ Answered
    /\ req.endpoint = "clear_cache"
    /\ resp.message = ClearedMessage(cache_type)

\* C30: /clear-cache with type 'backgrounds' empties BACKGROUND_CACHE and
\* leaves MASTER_CACHE unchanged, with type 'masters' empties MASTER_CACHE
\* and leaves BACKGROUND_CACHE unchanged, with type 'all' or no type empties
\* both, and with any other type leaves both unchanged.
C30_ClearCacheFrame ==
    /\ (req.endpoint = "clear_cache") =>
           /\ Answered
           /\ resp.status = 200
           /\ \E cache_type \in CacheTypes \cup {""} : Cleared(cache_type)
    /\ Cleared("backgrounds") =>
           /\ BACKGROUND_CACHE = << >>
           /\ MASTER_CACHE = hist.master_before
    /\ Cleared("masters") =>
           /\ MASTER_CACHE = << >>
           /\ BACKGROUND_CACHE = hist.bg_before
    /\ Cleared("all") =>
           /\ BACKGROUND_CACHE = << >>
           /\ MASTER_CACHE = << >>
    /\ (Cleared("thumbnails") \/ Cleared("")) =>
           /\ BACKGROUND_CACHE = hist.bg_before
           /\ MASTER_CACHE = hist.master_before

\* C30 witness: with entries in both caches, a /clear-cache of type
\* 'backgrounds' emptied BACKGROUND_CACHE and kept the masters.
C30_Witness ==
    /\ Cleared("backgrounds")
    /\ hist.bg_before # << >>
    /\ BACKGROUND_CACHE = << >>
    /\ MASTER_CACHE # << >>
    /\ MASTER_CACHE = hist.master_before

\* ------------------------------------------------- the master library alone
\* The four master handlers with everything their requests and responses
\* carry, next to /pregenerate-background and /clear-cache, one request at
\* a time.

\* The images clients save as masters.
LibraryImages == MasterUploads \cup {SavedMaster}
\* The <master_id> of a /get-master or /delete-master URL.
LibraryIds == { generate_cache_id(m, "master_") : m \in LibraryImages }
\* request.form.get('lightingScheme', '')
LightingSchemes == {"", "softbox"}
\* request.form.get('backgroundType', '')
BackgroundTypes == {"", "marble"}
\* analysis.get("style_description", "") of the JSON object the analysis
\* call answered with: the object has the member or lacks it.
StyleTexts == {"", AnalysisStyle}

\* The value /save-master stores under master_id.
LibraryEntry(image, lighting, background, style) ==
    [image |-> image, lighting |-> lighting, background |-> background,
     style |-> style]

\* A request to a master handler: its 'image' file, its form fields and
\* the <master_id> of its URL (NoImg, "", NoId where it has none).
LibraryRequest(endpoint, image, lightingScheme, backgroundType, master_id) ==
    [endpoint |-> endpoint, image |-> image,
     lightingScheme |-> lightingScheme, backgroundType |-> backgroundType,
     master_id |-> master_id]

\* The JSON body and the status of a master handler's answer.  masters is
\* the list /list-masters returns, as the set of its items.
LibraryResponse(status, message, master_id, entry, masters) ==
    [status |-> status, message |-> message, master_id |-> master_id,
     entry |-> entry, masters |-> masters]
NoEntry == LibraryEntry(NoImg, "", "", "")

\* What the analysis call of the current /save-master did.
AnalysisCalled(reply) == [analysis_reply |-> reply]

\* A request arrives at a master handler while no other is being handled.
LibraryArrive(request) ==
    /\ pc = "idle"
    /\ req' = request
    /\ hist' = History(NoImg, BACKGROUND_CACHE, MASTER_CACHE)

\* A store that keeps the entry a master_id already has.
WithMaster_keeps_first(cache, master_id, entry) ==
    [k \in DOMAIN cache \cup {master_id} |->
        IF k \in DOMAIN cache THEN cache[k] ELSE entry]

\* MASTER_CACHE[master_id] = {...}
WithMaster(cache, master_id, entry) ==
    [k \in DOMAIN cache \cup {master_id} |->
        IF k = master_id THEN entry ELSE cache[k]]

\* A removal that empties the cache.
WithoutMaster_everything(cache, master_id) == << >>

\* del MASTER_CACHE[master_id]
WithoutMaster(cache, master_id) ==
    [k \in DOMAIN cache \ {master_id} |-> cache[k]]

\* POST /save-master up to the analysis call: the 'image' test, the form
\* fields, file.read() and the master_id.
LibrarySaveStart ==
    \E i \in {NoImg} \cup LibraryImages, lighting \in LightingSchemes,
       background \in BackgroundTypes :
        LET request ==
                LibraryRequest("save_master", i, lighting, background, NoId)
        IN
        /\ LibraryArrive(request)
        /\ IF MissingImage(request)
           THEN /\ Return(ErrorResponse(400))
                /\ UNCHANGED loc
           ELSE /\ loc' = [image_bytes |-> i, lighting_scheme |-> lighting,
                           background_type |-> background,
                           master_id |-> generate_cache_id(i, "master_")]
                /\ pc' = "lib_analysis"
                /\ UNCHANGED resp
        /\ UNCHANGED <<BACKGROUND_CACHE, MASTER_CACHE, obs>>

\* The analysis call, json.loads, the cache write and the response.  The
\* entry's values are computed before the subscript assignment, so nothing
\* is written when one of them raises.
LibrarySaveAnalyse ==
    /\ pc = "lib_analysis"
    /\ \E reply \in AnalysisReplies, style \in StyleTexts :
         LET text == clean_json_text(reply.text)
             entry == LibraryEntry(loc.image_bytes, loc.lighting_scheme,
                                   loc.background_type, style) IN
         IF reply.raises \/ JsonLoadsRaises(text) \/ GetRaises(text)
         THEN /\ Return(ErrorResponse(500))
              /\ UNCHANGED MASTER_CACHE
              /\ obs' = AnalysisCalled(reply)
         ELSE /\ MASTER_CACHE' =
                     WithMaster(MASTER_CACHE, loc.master_id, entry)
              /\ obs' = AnalysisCalled(reply)
              /\ Return(LibraryResponse(200, "Master saved successfully",
                                        loc.master_id,
                                        LibraryEntry(NoImg, "", "", style),
                                        {}))
    /\ UNCHANGED <<BACKGROUND_CACHE, req, loc, hist>>

\* GET /get-master/<master_id>
LibraryGetMaster ==
    \E master_id \in LibraryIds :
        /\ LibraryArrive(LibraryRequest("get_master", NoImg, "", "",
                                        master_id))
        /\ IF master_id \notin DOMAIN MASTER_CACHE
           THEN Return(ErrorResponse(404))
           ELSE Return(LibraryResponse(200, "", master_id,
                                       MASTER_CACHE[master_id], {}))
        /\ UNCHANGED <<BACKGROUND_CACHE, MASTER_CACHE, loc, obs>>

\* GET /list-masters
LibraryListMasters ==
    /\ LibraryArrive(LibraryRequest("list_masters", NoImg, "", "", NoId))
    /\ Return(LibraryResponse(200, "", NoId, NoEntry,
                 { [master_id |-> mid,
                    lighting |-> MASTER_CACHE[mid].lighting,
                    background |-> MASTER_CACHE[mid].background,
                    style |-> MASTER_CACHE[mid].style] :
                   mid \in DOMAIN MASTER_CACHE }))
    /\ UNCHANGED <<BACKGROUND_CACHE, MASTER_CACHE, loc, obs>>

\* DELETE /delete-master/<master_id>
LibraryDeleteMaster ==
    \E master_id \in LibraryIds :
        /\ LibraryArrive(LibraryRequest("delete_master", NoImg, "", "",
                                        master_id))
        /\ IF master_id \in DOMAIN MASTER_CACHE
           THEN /\ MASTER_CACHE' = WithoutMaster(MASTER_CACHE, master_id)
                /\ Return(LibraryResponse(200, "Master deleted", NoId,
                                          NoEntry, {}))
           ELSE /\ Return(ErrorResponse(404))
                /\ UNCHANGED MASTER_CACHE
        /\ UNCHANGED <<BACKGROUND_CACHE, loc, obs>>

LibraryNext ==
    \/ LibrarySaveStart
    \/ LibrarySaveAnalyse
    \/ LibraryGetMaster
    \/ LibraryListMasters
    \/ LibraryDeleteMaster
    \/ PregenStart
    \/ PregenAnalyse
    \/ PregenGenerate
    \/ PregenVerify
    \/ ClearCache
    \/ Finish

LibrarySpec == Init /\ [][LibraryNext]_vars

\* The current request is a /delete-master (a /get-master) that has been
\* answered.
DeleteAnswered == Answered /\ req.endpoint = "delete_master"
GetAnswered == Answered /\ req.endpoint = "get_master"

\* What an answered /delete-master or /get-master has done, against the
\* caches as they were when the request arrived.
MasterRemovalEffect ==
    /\ (DeleteAnswered /\ req.master_id \in DOMAIN hist.master_before) =>
           /\ resp.status = 200
           /\ resp.message = "Master deleted"
           /\ DOMAIN MASTER_CACHE =
                  DOMAIN hist.master_before \ {req.master_id}
           /\ \A k \in DOMAIN MASTER_CACHE :
                  MASTER_CACHE[k] = hist.master_before[k]
           /\ BACKGROUND_CACHE = hist.bg_before
    /\ (DeleteAnswered /\ req.master_id \notin DOMAIN hist.master_before) =>
           /\ resp = ErrorResponse(404)
           /\ MASTER_CACHE = hist.master_before
           /\ BACKGROUND_CACHE = hist.bg_before
    /\ GetAnswered =>
           /\ resp.status \in {200, 404}
           /\ resp.status = 404 <=> req.master_id \notin DOMAIN MASTER_CACHE
           /\ MASTER_CACHE = hist.master_before
           /\ BACKGROUND_CACHE = hist.bg_before

\* An id that is not cached becomes cached only by the successful
\* /save-master of the image it is the id of.
AbsentUntilSaved ==
    \A master_id \in LibraryIds :
        (master_id \notin DOMAIN MASTER_CACHE
         /\ master_id \in DOMAIN MASTER_CACHE') =>
            /\ req.endpoint = "save_master"
            /\ generate_cache_id(req.image, "master_") = master_id
            /\ resp'.status = 200
            /\ MASTER_CACHE'[master_id].image = req.image

\* C31: /delete-master of a cached id answers 200, removes that entry and
\* leaves every other MASTER_CACHE entry and BACKGROUND_CACHE as they
\* were; of an id that is not cached it answers 404 and changes neither
\* cache.  /get-master answers 404 exactly for the ids that are not
\* cached, and an id that is not cached stays so until a /save-master of
\* the image with that id succeeds: after a deletion /get-master and
\* /delete-master of the id answer 404 until then.
C31_DeleteMasterFrame == [][MasterRemovalEffect' /\ AbsentUntilSaved]_vars

\* A /delete-master has removed one of two cached masters while a
\* background was cached; the other master is still there.
C31_Witness ==
    /\ DeleteAnswered
    /\ resp.status = 200
    /\ DOMAIN hist.master_before = LibraryIds
    /\ Cardinality(DOMAIN MASTER_CACHE) = 1
    /\ req.master_id \notin DOMAIN MASTER_CACHE
    /\ DOMAIN BACKGROUND_CACHE # {}

\* The current request is a /save-master with an 'image' file that has
\* been answered.
SaveAnswered ==
    Answered /\ req.endpoint = "save_master" /\ req.image # NoImg

\* The analysis call raised, or its text is no JSON object.
AnalysisFailed ==
    LET reply == obs.analysis_reply
        text == clean_json_text(reply.text) IN
    reply.raises \/ JsonLoadsRaises(text) \/ GetRaises(text)

\* The ids under which a cache holds the bytes `image`.
IdsOf(cache, image) == { k \in DOMAIN cache : cache[k].image = image }

\* C32: a /save-master whose analysis succeeds answers 200 with the id
\* that any earlier save of the same bytes was stored under; afterwards
\* the cache holds these bytes under that id alone, with the lighting and
\* background of this request and the style of this analysis, it has no
\* new key when the bytes were cached before, and every other entry is as
\* it was.  A /save-master whose analysis call raises or returns no JSON
\* object answers 500 and leaves MASTER_CACHE as it was.
C32_SaveMasterKeyedByContent ==
    SaveAnswered =>
        LET master_id == generate_cache_id(req.image, "master_") IN
        /\ BACKGROUND_CACHE = hist.bg_before
        /\ AnalysisFailed =>
               /\ resp = ErrorResponse(500)
               /\ MASTER_CACHE = hist.master_before
        /\ ~AnalysisFailed =>
               /\ resp.status = 200
               /\ resp.master_id = master_id
               /\ IdsOf(hist.master_before, req.image) \subseteq {master_id}
               /\ IdsOf(MASTER_CACHE, req.image) = {master_id}
               /\ DOMAIN MASTER_CACHE =
                      DOMAIN hist.master_before \cup {master_id}
               /\ MASTER_CACHE[master_id] =
                      LibraryEntry(req.image, req.lightingScheme,
                                   req.backgroundType, resp.entry.style)
               /\ \A k \in DOMAIN MASTER_CACHE \ {master_id} :
                      MASTER_CACHE[k] = hist.master_before[k]

\* The same bytes are saved a second time with another lighting, another
\* background and another style, next to a master of other bytes.
C32_Witness ==
    /\ SaveAnswered
    /\ resp.status = 200
    /\ DOMAIN hist.master_before = LibraryIds
    /\ LET old == hist.master_before[resp.master_id]
           new == MASTER_CACHE[resp.master_id] IN
       /\ old.image = req.image
       /\ old.lighting # new.lighting
       /\ old.background # new.background
       /\ old.style # new.style
       /\ new.lighting = "softbox"

====
